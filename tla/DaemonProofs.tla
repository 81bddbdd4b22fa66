----------------------------- MODULE DaemonProofs ------------------------------
(***************************************************************************)
(* Proofs about Daemon, for any number of images, layers, repositories and *)
(* requests.                                                               *)
(***************************************************************************)
EXTENDS Daemon, SequenceTheorems, TLAPS

-----------------------------------------------------------------------------
(* What a request points to *)

\* The image, layer, blob and documents of a request exist.
LEMMA RequestPoints ==
  ASSUME TypeOK, NEW c \in Calls, req[c] # None
  PROVE  /\ req[c] \in Request
         /\ Img(c) \in Images
         /\ Layers[Img(c)] \in Seq(Ids)
         /\ Len(Layers[Img(c)]) \in Nat
         /\ req[c].k \in 1..Len(Layers[Img(c)])
         /\ Layer(c) \in Ids
         /\ Name[Img(c)] \in Names
         /\ Name[Img(c)][1] \in Repos
         /\ Spot(c) \in Spots /\ Spot(c)[2] = Layer(c)
         /\ \A doc \in Documents :
              Document(c, doc) \in Repos \X Images \X Documents
<1>1. /\ req[c] \in Request
      /\ Img(c) \in Images
      /\ req[c].k \in Nat \ {0}
      /\ req[c].k <= Len(Layers[Img(c)])
  BY DEF TypeOK, Request, Img
<1>2. Layers[Img(c)] \in Seq(Ids) /\ Name[Img(c)][1] \in Repos /\ Name[Img(c)] \in Names
  BY <1>1, ImageAssumption DEF Names
<1>3. Len(Layers[Img(c)]) \in Nat /\ req[c].k \in 1..Len(Layers[Img(c)])
  BY <1>1, <1>2
<1>4. Layer(c) \in Ids
  BY <1>2, <1>3, ElementOfSeq DEF Layer
<1>. QED
  BY <1>1, <1>2, <1>3, <1>4 DEF Spot, Spots, Document

\* A request that goes on has the same image; a new layer is one of the image.
LEMMA GotoType ==
  ASSUME TypeOK, NEW c \in Calls, req[c] # None, NEW at \in Step
  PROVE  /\ Goto(c, at) =>
              /\ Img(c)' = Img(c) /\ req'[c].k = req[c].k /\ req'[c].at = at
              /\ req'[c] \in Request /\ req'[c] # None
              /\ \A d \in Calls \ {c} : req'[d] = req[d]
         /\ NextLayer(c, at) =>
              /\ Img(c)' = Img(c) /\ req'[c].k = req[c].k + 1 /\ req'[c].at = at
              /\ req'[c] \in Request /\ req'[c] # None
              /\ \A d \in Calls \ {c} : req'[d] = req[d]
         /\ End(c) =>
              req'[c] = None /\ \A d \in Calls \ {c} : req'[d] = req[d]
  BY RecordAssumption DEF TypeOK, Request, Goto, NextLayer, End, Img

LEMMA ContentType ==
  ASSUME TypeOK, NEW s \in Spots
  PROVE  Content(s) \in Versions \cup {None, Junk, Linked}
  BY DEF Content, TypeOK, Spots

-----------------------------------------------------------------------------
(* Type correctness *)

EngineTypeOK ==
    /\ mode \in {"down", "booting", "up"}
    /\ entry \in [Ids -> Entry \cup {None}]
    /\ layer \in [Ids -> Versions \cup {None, Junk}]
    /\ torrentFile \in [Ids -> Versions \cup {None, Torn}]
    /\ straggler \in SUBSET Ids
    /\ polling \in [Calls -> Ids \cup {None, Closed}]
    /\ banned \in SUBSET Peers

LEMMA EngineType ==
  ASSUME EngineTypeOK, Engine!Next
  PROVE  EngineTypeOK'
<1> USE DEF EngineTypeOK, Engine!disk, Engine!Stage
<1>1. ASSUME NEW id \in Ids, NEW v \in Versions, Engine!Start(id, v)
      PROVE  entry' \in [Ids -> Entry \cup {None}]
  BY <1>1 DEF Engine!Start, Entry
<1>2. ASSUME NEW id \in Ids, entry[id] # None, NEW t \in Engine!Stage,
             entry' = [entry EXCEPT ![id].stage = t]
      PROVE  entry' \in [Ids -> Entry \cup {None}]
  BY <1>2 DEF Entry
<1>3. ASSUME NEW id \in Ids, NEW content \in Versions \cup {Junk},
             layer' = [layer EXCEPT ![id] = Engine!Overwritten(id, content)]
      PROVE  layer' \in [Ids -> Versions \cup {None, Junk}]
  BY <1>3 DEF Engine!Overwritten
<1>4. CASE Engine!RunBegin \/ Engine!RunEnd
  BY <1>4 DEF Engine!RunBegin, Engine!RunEnd
<1>5. ASSUME NEW id \in Ids, Engine!Work(id) PROVE EngineTypeOK'
  <2>1. CASE Engine!RunSeed(id)
    BY <1>1, <2>1 DEF Engine!RunSeed
  <2>2. CASE Engine!HashPiece(id)
    <3>1. banned' \in SUBSET Peers
      BY <2>2 DEF Engine!HashPiece, Engine!Blamed
    <3>. QED
      BY <1>2, <2>2, <3>1 DEF Engine!HashPiece, Engine!Started
  <2>3. ASSUME NEW c \in Versions \cup {Junk}, Engine!WriteChunk(id, c)
        PROVE  EngineTypeOK'
    BY <1>2, <1>3, <2>3 DEF Engine!WriteChunk, Engine!Started
  <2>4. ASSUME NEW c \in Versions \cup {Junk}, Engine!StragglerWrite(id, c)
        PROVE  EngineTypeOK'
    BY <1>3, <2>4 DEF Engine!StragglerWrite
  <2>5. CASE Engine!StragglerFails(id)
    BY <2>5 DEF Engine!StragglerFails
  <2>. QED
    BY <1>5, <2>1, <2>2, <2>3, <2>4, <2>5 DEF Engine!Work
<1>6. ASSUME NEW id \in Ids, Engine!Call(id) PROVE EngineTypeOK'
  <2>1. CASE Engine!StartSeed(id)
    BY <1>1, <2>1 DEF Engine!StartSeed
  <2>2. CASE Engine!StartSeedTorn(id)
    BY <2>2 DEF Engine!StartSeedTorn
  <2>3. ASSUME NEW v \in Versions, NEW p \in Calls \cup {None},
               Engine!StartLeecher(id, v, p)
        PROVE  EngineTypeOK'
    BY <1>1, <2>3 DEF Engine!StartLeecher
  <2>4. CASE Engine!StopTorrent(id)
    BY <1>2, <2>4 DEF Engine!StopTorrent, Engine!Started
  <2>5. CASE Engine!DeleteTorrent(id)
    BY <2>5 DEF Engine!DeleteTorrent
  <2>. QED
    BY <1>6, <2>1, <2>2, <2>3, <2>4, <2>5 DEF Engine!Call
<1>7. CASE \E p \in Calls : Engine!Return(p)
  BY <1>7 DEF Engine!Return
<1>8. CASE \E id \in Ids, content \in Versions : Engine!WriteLayer(id, content)
  BY <1>8 DEF Engine!WriteLayer
<1>9. CASE Engine!Crash \/ \E id \in Ids : \/ Engine!CrashInStartSeed(id)
                                           \/ Engine!CrashInDelete(id)
  BY <1>9 DEF Engine!Crash, Engine!CrashInStartSeed, Engine!CrashInDelete,
              Engine!LoseMemory
<1>. QED
  BY <1>4, <1>5, <1>6, <1>7, <1>8, <1>9 DEF Engine!Next

RequestTypeOK ==
    /\ req \in [Calls -> Request \cup {None}]
    /\ \A c \in Calls : req[c] # None => req[c].k <= Len(Layers[req[c].img])

\* However a request goes on, it stays one.
LEMMA MoveType ==
  ASSUME TypeOK, NEW c \in Calls, req[c] # None, NEW at \in Step
  PROVE  /\ Goto(c, at) => RequestTypeOK'
         /\ MoreLayers(c) /\ NextLayer(c, at) => RequestTypeOK'
         /\ End(c) => RequestTypeOK'
<1>1. /\ req \in [Calls -> Request \cup {None}]
      /\ \A d \in Calls : req[d] # None => req[d].k <= Len(Layers[req[d].img])
      /\ req[c] \in Request /\ Img(c) \in Images
      /\ Len(Layers[Img(c)]) \in Nat /\ req[c].k \in 1..Len(Layers[Img(c)])
  BY RequestPoints DEF TypeOK
<1>2. ASSUME NEW k \in 1..Len(Layers[Img(c)]), req'[c] \in Request,
             Img(c)' = Img(c), req'[c].k = k,
             \A d \in Calls \ {c} : req'[d] = req[d],
             req' \in [Calls -> Request \cup {None}]
      PROVE  RequestTypeOK'
  BY <1>1, <1>2 DEF RequestTypeOK, Img
<1>3. ASSUME Goto(c, at) PROVE RequestTypeOK'
  <2>1. req' \in [Calls -> Request \cup {None}]
    BY <1>1, <1>3 DEF Goto, Request
  <2>. QED
    BY <1>1, <1>2, <1>3, <2>1, GotoType
<1>4. ASSUME NextLayer(c, at), MoreLayers(c) PROVE RequestTypeOK'
  <2>1. req' \in [Calls -> Request \cup {None}]
    <3>1. req' = [d \in Calls |-> req'[d]]
      BY <1>1, <1>4 DEF NextLayer
    <3>. QED
      BY <1>1, <1>4, <3>1, GotoType
  <2>2. req[c].k + 1 \in 1..Len(Layers[Img(c)])
    BY <1>1, <1>4 DEF MoreLayers
  <2>. QED
    BY <1>1, <1>2, <1>4, <2>1, <2>2, GotoType
<1>5. ASSUME End(c) PROVE RequestTypeOK'
  BY <1>1, <1>5 DEF End, RequestTypeOK
<1>. QED
  BY <1>3, <1>4, <1>5

LEMMA LayerDoneType ==
  ASSUME TypeOK, NEW c \in Calls, req[c] # None
  PROVE  /\ LayerDone(c) => RequestTypeOK' /\ done' \in SUBSET Images
         /\ LayerStopped(c) => RequestTypeOK'
         /\ Succeed(c) => RequestTypeOK' /\ done' \in SUBSET Images
<1>1. Img(c) \in Images /\ done \in SUBSET Images
  BY RequestPoints DEF TypeOK
<1>2. {"exist", "config", "stop"} \subseteq Step
  BY DEF Step
<1>. QED
  BY <1>1, <1>2, MoveType DEF LayerDone, LayerStopped, Succeed

\* Every step of a request keeps the types.
LEMMA TypeStep == TypeOK /\ [Next]_vars => TypeOK'
<1> SUFFICES ASSUME TypeOK, [Next]_vars PROVE TypeOK'
  OBVIOUS
<1> USE DEF layout, engine
<1> DEFINE Rest == /\ blobs \in [Spots -> Versions \cup {None, Junk, Linked}]
                   /\ stored \in SUBSET (Repos \X Images \X Documents)
                   /\ refs \in [Names -> Images \cup {None}]
                   /\ made \in [Repos -> {"none", "half", "whole"}]
                   /\ copier \in [Ids -> Calls \cup {None}]
                   /\ done \in SUBSET Images
                   /\ spoiled \in SUBSET Ids
                   /\ clashed \in SUBSET Ids
<1>1. EngineTypeOK /\ RequestTypeOK /\ Rest
  BY DEF TypeOK, EngineTypeOK, RequestTypeOK
<1>2. EngineTypeOK' /\ RequestTypeOK' /\ Rest' => TypeOK'
  BY DEF TypeOK, EngineTypeOK, RequestTypeOK
<1>3. UNCHANGED engine => EngineTypeOK'
  BY <1>1 DEF EngineTypeOK
<1>4. UNCHANGED req => RequestTypeOK'
  BY <1>1 DEF RequestTypeOK
<1> HIDE DEF Rest
<1>5. UNCHANGED <<layout, copier, clashed, done, spoiled>> => Rest'
  BY <1>1 DEF Rest
<1>6. Engine!Next => EngineTypeOK'
  BY <1>1, EngineType
<1>7. ASSUME NEW c \in Calls, Download(c) PROVE TypeOK'
  <2>1. ASSUME NEW img \in Images, StartDownload(c, img) PROVE TypeOK'
    <3>1. Len(Layers[img]) \in Nat \ {0}
      BY ImageAssumption, EmptySeq, LenProperties
    <3>2. [img |-> img, k |-> 1, at |-> "exist", clean |-> FALSE] \in Request
      BY DEF Request, Step
    <3>3. RequestTypeOK'
      <4>1. ASSUME req' = [req EXCEPT ![c] = [img |-> img, k |-> 1, at |-> "exist",
                                              clean |-> FALSE]]
            PROVE  RequestTypeOK'
        BY <1>1, <3>1, <3>2, <4>1 DEF RequestTypeOK
      <4>. QED
        BY <1>4, <2>1, <4>1 DEF StartDownload
    <3>4. Rest'
      BY <1>1, <2>1 DEF StartDownload, Rest
    <3>. QED
      BY <1>2, <1>3, <2>1, <3>3, <3>4 DEF StartDownload
  <2>2. ASSUME At(c, req[c].at) PROVE TypeOK'
    <3>1. /\ Spot(c) \in Spots /\ Layer(c) \in Ids /\ Img(c) \in Images
          /\ Name[Img(c)] \in Names
          /\ \A doc \in Documents : Document(c, doc) \in Repos \X Images \X Documents
      BY <2>2, RequestPoints DEF At
    <3>2. \A at \in Step : Goto(c, at) => RequestTypeOK'
      BY <2>2, MoveType DEF At
    <3>3. /\ LayerDone(c) => RequestTypeOK' /\ done' \in SUBSET Images
          /\ Succeed(c) => RequestTypeOK' /\ done' \in SUBSET Images
      BY <2>2, LayerDoneType DEF At
    <3>4. CASE SkipLayer(c) \/ MissLayer(c)
      BY <1>1, <1>2, <1>3, <1>5, <3>2, <3>3, <3>4 DEF SkipLayer, MissLayer, Step, Rest
    <3>5. CASE CopyLayer(c)
      BY <1>1, <1>2, <1>3, <3>1, <3>2, <3>5, ContentAssumption
         DEF CopyLayer, Step, Rest
    <3>6. CASE LinkLayer(c)
      <4>1. Engine!Next
        BY <3>1, <3>6, ContentAssumption DEF LinkLayer, Engine!Next
      <4>. QED
        BY <1>1, <1>2, <1>6, <3>1, <3>2, <3>6, <4>1 DEF LinkLayer, Step, Rest
    <3>7. CASE CreateLayer(c)
      <4>1. Engine!Next
        BY <3>1, <3>7, ContentAssumption DEF CreateLayer, Engine!Next
      <4>. QED
        BY <1>1, <1>2, <1>6, <3>1, <3>2, <3>7, <4>1 DEF CreateLayer, Step, Rest
    <3>8. CASE FillLayer(c)
      <4>1. layer' \in [Ids -> Versions \cup {None, Junk}]
        BY <1>1, <3>1, <3>8, ContentAssumption DEF FillLayer, EngineTypeOK
      <4>2. EngineTypeOK'
        BY <1>1, <3>8, <4>1 DEF FillLayer, EngineTypeOK
      <4>. QED
        BY <1>1, <1>2, <3>1, <3>2, <3>8, <4>2 DEF FillLayer, Step, Rest
    <3>9. CASE Seed(c)
      <4>1. Engine!Next \/ UNCHANGED engine
        BY <3>1, <3>9 DEF Seed, Engine!Next, Engine!Call
      <4>. QED
        BY <1>1, <1>2, <1>3, <1>6, <3>1, <3>3, <3>9, <4>1 DEF Seed, Rest
    <3>10. CASE StartLeecher(c)
      <4>1. Engine!Next \/ UNCHANGED engine
        BY <3>1, <3>10, ContentAssumption DEF StartLeecher, Engine!Next, Engine!Call
      <4>2. RequestTypeOK'
        BY <3>2, <3>10 DEF StartLeecher, Step
      <4>. QED
        BY <1>2, <1>3, <1>5, <1>6, <3>10, <4>1, <4>2 DEF StartLeecher
    <3>11. CASE Return(c)
      <4>1. Engine!Next
        BY <3>11 DEF Return, Engine!Next
      <4>. QED
        BY <1>2, <1>5, <1>6, <3>2, <3>11, <4>1 DEF Return, Step
    <3>12. CASE CopyToLayout(c) \/ LinkToLayout(c)
      BY <1>1, <1>2, <1>3, <3>1, <3>3, <3>12, ContentAssumption
         DEF CopyToLayout, LinkToLayout, Rest
    <3>13. CASE PutConfig(c) \/ PutManifest(c)
      BY <1>1, <1>2, <1>3, <3>1, <3>2, <3>13
         DEF PutConfig, PutManifest, Step, Documents, Rest
    <3>14. CASE CheckReference(c)
      BY <1>1, <1>2, <1>3, <3>2, <3>3, <3>14 DEF CheckReference, Step, Rest
    <3>15. CASE WriteReference(c)
      BY <1>1, <1>2, <1>3, <3>1, <3>3, <3>15 DEF WriteReference, Rest
    <3>. QED
      BY <1>7, <2>1, <3>4, <3>5, <3>6, <3>7, <3>8, <3>9, <3>10, <3>11, <3>12,
         <3>13, <3>14, <3>15 DEF Download
  <2>. QED
    BY <1>7, <2>1, <2>2
       DEF Download, At, SkipLayer, MissLayer, CopyLayer, LinkLayer, CreateLayer,
           FillLayer, Seed, StartLeecher, Return, CopyToLayout, LinkToLayout,
           PutConfig, PutManifest, CheckReference, WriteReference
<1>9. ASSUME NEW c \in Calls, Stop(c) PROVE TypeOK'
  <2>1. ASSUME NEW name \in Names, NEW clean \in BOOLEAN, StopDownload(c, name, clean)
        PROVE  TypeOK'
    <3>1. refs[name] \in Images
      BY <1>1, <2>1 DEF StopDownload, Rest
    <3>2. Len(Layers[refs[name]]) \in Nat \ {0}
      BY <3>1, ImageAssumption, EmptySeq, LenProperties
    <3>3. [img |-> refs[name], k |-> 1, at |-> "stop", clean |-> clean] \in Request
      BY <3>1 DEF Request, Step
    <3>4. RequestTypeOK'
      BY <1>1, <2>1, <3>2, <3>3 DEF StopDownload, RequestTypeOK
    <3>. QED
      BY <1>2, <1>3, <1>5, <2>1, <3>4 DEF StopDownload
  <2>2. CASE StopLayer(c)
    <3>1. req[c] # None
      BY <2>2 DEF StopLayer, At
    <3>2. Engine!Next \/ UNCHANGED engine
      BY <2>2, <3>1, RequestPoints DEF StopLayer, Engine!Next, Engine!Call
    <3>3. EngineTypeOK'
      BY <1>3, <1>6, <3>2
    <3>4. RequestTypeOK'
      BY <2>2, <3>1, MoveType, LayerDoneType DEF StopLayer, Step
    <3>. QED
      BY <1>1, <1>2, <2>2, <3>3, <3>4 DEF StopLayer, Rest, EngineTypeOK
  <2>3. CASE DeleteLayer(c)
    <3>1. req[c] # None
      BY <2>3 DEF DeleteLayer, At
    <3>2. Layer(c) \in Ids
      BY <3>1, RequestPoints
    <3>3. CASE Engine!DeleteTorrent(Layer(c)) /\ KeepLinked(Layer(c))
      <4>1. Engine!Next
        BY <3>2, <3>3 DEF Engine!Next, Engine!Call
      <4>2. blobs' \in [Spots -> Versions \cup {None, Junk, Linked}]
        BY <1>1, <3>2, <3>3, ContentType DEF KeepLinked, Rest
      <4>. QED
        BY <1>1, <1>2, <1>6, <2>3, <3>1, <4>1, <4>2, LayerDoneType DEF DeleteLayer, Rest
    <3>4. CASE UNCHANGED <<engine, blobs>>
      BY <1>1, <1>2, <1>3, <2>3, <3>1, <3>4, LayerDoneType DEF DeleteLayer, Rest
    <3>. QED
      BY <2>3, <3>3, <3>4 DEF DeleteLayer
  <2>. QED
    BY <1>9, <2>1, <2>2, <2>3 DEF Stop
<1>10. ASSUME NEW c \in Calls, Fail(c) PROVE TypeOK'
  <2>1. req[c] # None
    BY <1>10 DEF Fail
  <2>2. RequestTypeOK'
    BY <1>10, <2>1, MoveType DEF Fail, Step
  <2>. QED
    BY <1>1, <1>2, <1>3, <1>10, <2>1, <2>2, RequestPoints DEF Fail, Rest
<1>11. CASE Crash
  <2>1. InHand \in SUBSET Ids
    BY RequestPoints DEF InHand, Seeding, At
  <2>2. RequestTypeOK'
    BY <1>11 DEF Crash, RequestTypeOK
  <2>3. Engine!Next /\ blobs' \in [Spots -> Versions \cup {None, Junk, Linked}]
    <3>1. CASE Engine!Crash /\ UNCHANGED blobs
      BY <1>1, <3>1 DEF Engine!Next, Rest
    <3>2. ASSUME NEW c \in Calls, At(c, "seed"), Engine!CrashInStartSeed(Layer(c)),
                 UNCHANGED blobs
          PROVE  Engine!Next /\ blobs' \in [Spots -> Versions \cup {None, Junk, Linked}]
      BY <1>1, <3>2, RequestPoints DEF At, Engine!Next, Rest
    <3>3. ASSUME NEW c \in Calls, At(c, "delete"), Engine!CrashInDelete(Layer(c)),
                 KeepLinked(Layer(c))
          PROVE  Engine!Next /\ blobs' \in [Spots -> Versions \cup {None, Junk, Linked}]
      BY <1>1, <3>3, RequestPoints, ContentType DEF At, Engine!Next, KeepLinked, Rest
    <3>. QED
      BY <1>11, <3>1, <3>2, <3>3 DEF Crash
  <2>. QED
    <3>1. made' \in [Repos -> {"none", "half", "whole"}]
      BY <1>1, <1>11 DEF Crash, Rest
    <3>. QED
      BY <1>1, <1>2, <1>6, <1>11, <2>1, <2>2, <2>3, <3>1 DEF Crash, Rest
<1>12. CASE EngineStep
  <2>1. Engine!Next
    BY <1>12 DEF EngineStep, Engine!Next
  <2>. QED
    BY <1>2, <1>4, <1>5, <1>6, <1>12, <2>1 DEF EngineStep
<1>13. CASE UNCHANGED vars
  BY <1>2, <1>3, <1>4, <1>5, <1>13 DEF vars
<1>. QED
  BY <1>7, <1>9, <1>10, <1>11, <1>12, <1>13 DEF Next

\* The state of the daemon keeps its types.
THEOREM TypeCorrect == Spec => []TypeOK
<1>1. Init => TypeOK
  BY DEF Init, Engine!Init, TypeOK
<1>. QED
  BY <1>1, TypeStep, PTL DEF Spec

-----------------------------------------------------------------------------
(* Blobs, documents and references stay *)

Grows ==
    /\ \A s \in Spots : blobs[s] # None => blobs'[s] # None
    /\ stored \subseteq stored'
    /\ \A n \in Names : refs[n] # None => refs'[n] # None

\* Only a delete removes a layer file.
LEMMA FilesStay ==
  ASSUME TypeOK, NEW id \in Ids, layer[id] # None
  PROVE  /\ EngineStep => layer'[id] # None
         /\ \A j \in Ids, content \in Versions :
              Engine!WriteLayer(j, content) => layer'[id] # None
<1>1. layer \in [Ids -> Versions \cup {None, Junk}]
  BY DEF TypeOK
<1>2. ASSUME NEW j \in Ids, NEW content \in Versions \cup {Junk},
             layer' = [layer EXCEPT ![j] = Engine!Overwritten(j, content)]
      PROVE  layer'[id] # None
  BY <1>1, <1>2, ContentAssumption DEF Engine!Overwritten
<1>3. ASSUME EngineStep PROVE layer'[id] # None
  BY <1>2, <1>3
     DEF EngineStep, Engine!RunBegin, Engine!RunEnd, Engine!Work, Engine!RunSeed,
         Engine!HashPiece, Engine!WriteChunk, Engine!StragglerWrite,
         Engine!StragglerFails, Engine!disk
<1>4. ASSUME NEW j \in Ids, NEW content \in Versions, Engine!WriteLayer(j, content)
      PROVE  layer'[id] # None
  BY <1>1, <1>4, ContentAssumption DEF Engine!WriteLayer
<1>. QED
  BY <1>3, <1>4

\* Removing a file loses no blob that links to it.
LEMMA KeepLinkedKeeps ==
  ASSUME TypeOK, LinkedHasFile, NEW id \in Ids, KeepLinked(id),
         \A j \in Ids \ {id} : layer'[j] = layer[j]
  PROVE  /\ LinkedHasFile'
         /\ \A s \in Spots : blobs[s] # None => blobs'[s] # None
         /\ \A s \in Spots : s[2] = id /\ layer'[id] = None => blobs'[s] # Linked
<1>1. ASSUME NEW s \in Spots
      PROVE  /\ blobs[s] # None => blobs'[s] # None
             /\ blobs'[s] = Linked => layer'[s[2]] # None
             /\ s[2] = id /\ layer'[id] = None => blobs'[s] # Linked
  <2>1. s[2] \in Ids /\ layer[s[2]] \in Versions \cup {None, Junk}
    BY DEF Spots, TypeOK
  <2>2. blobs'[s] = IF s[2] = id /\ layer'[id] = None THEN Content(s) ELSE blobs[s]
    BY DEF KeepLinked
  <2>3. Linked # layer[s[2]]
    BY <2>1, ContentAssumption
  <2>. QED
    BY <2>1, <2>2, <2>3 DEF Content, LinkedHasFile
<1>. QED
  BY <1>1 DEF LinkedHasFile

LEMMA StepGrows == IInv /\ [Next]_vars => Grows /\ LinkedHasFile'
<1> SUFFICES ASSUME IInv, [Next]_vars PROVE Grows /\ LinkedHasFile'
  OBVIOUS
<1> USE DEF IInv
<1>1. ASSUME UNCHANGED <<stored, refs>>,
             \A s \in Spots : blobs'[s] = blobs[s],
             \A id \in Ids : layer[id] # None => layer'[id] # None
      PROVE  Grows /\ LinkedHasFile'
  BY <1>1 DEF Grows, LinkedHasFile, Spots
<1>2. ASSUME UNCHANGED <<stored, refs, blobs, layer>>
      PROVE  Grows /\ LinkedHasFile'
  BY <1>1, <1>2
<1>3. ASSUME NEW c \in Calls, Download(c) PROVE Grows /\ LinkedHasFile'
  <2>1. CASE \/ \E img \in Images : StartDownload(c, img)
             \/ SkipLayer(c) \/ MissLayer(c) \/ CheckReference(c)
    BY <1>2, <2>1 DEF StartDownload, SkipLayer, MissLayer, CheckReference, layout, engine
  <2>2. CASE Seed(c) \/ StartLeecher(c) \/ Return(c)
    BY <1>2, <2>2 DEF Seed, StartLeecher, Return, Engine!StartSeed, Engine!StartSeedTorn,
                      Engine!StartLeecher, Engine!Return, Engine!disk, layout, engine
  <2>3. CASE CopyLayer(c) \/ CopyToLayout(c)
    <3>1. /\ blobs' = [blobs EXCEPT ![Spot(c)] = Whole]
          /\ UNCHANGED <<layer, stored, refs>>
      BY <2>3 DEF CopyLayer, CopyToLayout, engine
    <3>2. Whole # None /\ Whole # Linked
      BY ContentAssumption
    <3>. QED
      BY <3>1, <3>2 DEF Grows, LinkedHasFile, TypeOK
  <2>4. CASE LinkLayer(c) \/ LinkToLayout(c)
    <3>1. /\ blobs' = [blobs EXCEPT ![Spot(c)] = Linked]
          /\ UNCHANGED <<stored, refs>>
      BY <2>4 DEF LinkLayer, LinkToLayout
    <3>2. Spot(c)[2] = Layer(c) /\ Layer(c) \in Ids
      BY <2>4, RequestPoints DEF LinkLayer, LinkToLayout, At
    <3>3. /\ layer'[Layer(c)] # None
          /\ \A id \in Ids : layer[id] # None => layer'[id] # None
      BY <2>4, <3>2, ContentAssumption
         DEF LinkLayer, LinkToLayout, Engine!WriteLayer, engine, TypeOK
    <3>4. Linked # None
      BY ContentAssumption
    <3>. QED
      BY <3>1, <3>2, <3>3, <3>4 DEF Grows, LinkedHasFile, TypeOK, Spots
  <2>5. CASE CreateLayer(c)
    <3>1. Layer(c) \in Ids /\ Prefix \in Versions /\ Holed \in Versions
      BY <2>5, RequestPoints, ContentAssumption DEF CreateLayer, At
    <3>. QED
      BY <1>1, <2>5, <3>1, FilesStay DEF CreateLayer, layout
  <2>6. CASE FillLayer(c)
    <3>1. \A id \in Ids : layer[id] # None => layer'[id] # None
      BY <2>6, ContentAssumption DEF FillLayer, TypeOK
    <3>. QED
      BY <1>1, <2>6, <3>1 DEF FillLayer, layout
  <2>7. CASE PutConfig(c) \/ PutManifest(c)
    BY <2>7 DEF PutConfig, PutManifest, Grows, LinkedHasFile, engine
  <2>8. CASE WriteReference(c)
    <3>1. Img(c) # None
      BY <2>8, RequestPoints, ContentAssumption DEF WriteReference, At
    <3>. QED
      BY <2>8, <3>1 DEF WriteReference, Grows, LinkedHasFile, engine, TypeOK
  <2>. QED
    BY <1>3, <2>1, <2>2, <2>3, <2>4, <2>5, <2>6, <2>7, <2>8 DEF Download
<1>4. ASSUME NEW id \in Ids, KeepLinked(id), UNCHANGED <<stored, refs>>,
             Engine!DeleteTorrent(id) \/ Engine!CrashInDelete(id)
      PROVE  Grows /\ LinkedHasFile'
  <2>1. \A j \in Ids \ {id} : layer'[j] = layer[j]
    BY <1>4 DEF Engine!DeleteTorrent, Engine!CrashInDelete, Engine!disk, TypeOK
  <2>. QED
    BY <1>4, <2>1, KeepLinkedKeeps DEF Grows
<1>5. ASSUME NEW c \in Calls, Stop(c) PROVE Grows /\ LinkedHasFile'
  <2>1. CASE \E name \in Names, clean \in BOOLEAN : StopDownload(c, name, clean)
    BY <1>2, <2>1 DEF StopDownload, layout, engine
  <2>2. CASE StopLayer(c)
    BY <1>2, <2>2 DEF StopLayer, Engine!StopTorrent, Engine!disk, layout, engine
  <2>3. CASE DeleteLayer(c)
    <3>1. Layer(c) \in Ids
      BY <2>3, RequestPoints DEF DeleteLayer, At
    <3>. QED
      BY <1>2, <1>4, <2>3, <3>1 DEF DeleteLayer, engine
  <2>. QED
    BY <1>5, <2>1, <2>2, <2>3 DEF Stop
<1>6. CASE \E c \in Calls : Fail(c)
  BY <1>2, <1>6 DEF Fail, layout, engine
<1>7. CASE Crash
  <2>1. CASE UNCHANGED <<layer, blobs>>
    BY <1>2, <1>7, <2>1 DEF Crash
  <2>2. ASSUME NEW c \in Calls, At(c, "delete"), Engine!CrashInDelete(Layer(c)),
               KeepLinked(Layer(c))
        PROVE  Grows /\ LinkedHasFile'
    BY <1>4, <1>7, <2>2, RequestPoints DEF Crash, At
  <2>. QED
    BY <1>7, <2>1, <2>2
       DEF Crash, Engine!Crash, Engine!CrashInStartSeed, Engine!disk
<1>8. CASE EngineStep
  BY <1>1, <1>8, FilesStay DEF EngineStep, layout
<1>9. CASE UNCHANGED vars
  BY <1>2, <1>9 DEF vars, layout, engine
<1>. QED
  BY <1>3, <1>5, <1>6, <1>7, <1>8, <1>9 DEF Next

-----------------------------------------------------------------------------
(* References *)

LEMMA HasLayersGrows ==
  ASSUME Grows, NEW img \in Images, NEW n \in 0..Len(Layers[img]), HasLayers(img, n)
  PROVE  HasLayers(img, n)'
<1>1. Layers[img] \in Seq(Ids) /\ Name[img][1] \in Repos
  BY ImageAssumption
<1>2. ASSUME NEW k \in 1..n PROVE <<Name[img][1], Layers[img][k]>> \in Spots
  <2>1. k \in 1..Len(Layers[img])
    BY <1>1, LenProperties
  <2>. QED
    BY <1>1, <2>1, ElementOfSeq DEF Spots
<1>. QED
  BY <1>2 DEF Grows, HasLayers

\* A request that stands still has what it had.
LEMMA LeftBehindStays ==
  ASSUME TypeOK, Grows, NEW c \in Calls, req[c] # None, req'[c] = req[c], LeftBehind(c)
  PROVE  LeftBehind(c)'
<1>1. PICK img \in Images, k \in Nat :
        /\ img = Img(c) /\ k = req[c].k /\ k \in 1..Len(Layers[img])
        /\ Len(Layers[img]) \in Nat
  BY RequestPoints
<1>2. \A n \in {k - 1, k, Len(Layers[img])} : HasLayers(img, n) => HasLayers(img, n)'
  BY <1>1, HasLayersGrows
<1>3. /\ req'[c].k = k /\ Img(c)' = img
      /\ \A doc \in Documents : Document(c, doc)' = Document(c, doc)
  BY <1>1 DEF Img, Document
<1>. QED
  BY <1>1, <1>2, <1>3 DEF LeftBehind, Grows, Documents

\* A request that has its layer has all earlier ones when it goes on.
LEMMA LayerDoneLeaves ==
  ASSUME TypeOK, NEW c \in Calls, req[c] # None, LayerDone(c), req'[c] # None,
         NEW img \in Images, img = Img(c), NEW k \in Nat, k = req[c].k,
         HasLayers(img, k)'
  PROVE  LeftBehind(c)'
<1>0. {"exist", "config"} \subseteq Step
  BY DEF Step
<1>1. k \in 1..Len(Layers[img]) /\ Len(Layers[img]) \in Nat
  BY RequestPoints
<1>2. CASE MoreLayers(c) /\ NextLayer(c, "exist")
  <2>1. req'[c].at = "exist" /\ req'[c].k = k + 1 /\ Img(c)' = img
    BY <1>0, <1>2, GotoType
  <2>. QED
    BY <1>1, <2>1 DEF LeftBehind
<1>3. CASE ~MoreLayers(c) /\ Goto(c, "config")
  <2>1. req'[c].at = "config" /\ Img(c)' = img
    BY <1>0, <1>3, GotoType
  <2>2. Len(Layers[img]) = k
    BY <1>1, <1>3 DEF MoreLayers
  <2>. QED
    BY <2>1, <2>2 DEF LeftBehind
<1>4. ~Succeed(c)
  BY <1>0, GotoType DEF Succeed
<1>. QED
  BY <1>2, <1>3, <1>4 DEF LayerDone

\* A layer more.
LEMMA OneMoreLayer ==
  ASSUME Grows, NEW img \in Images, NEW k \in 1..Len(Layers[img]),
         HasLayers(img, k - 1), blobs'[<<Name[img][1], Layers[img][k]>>] # None
  PROVE  HasLayers(img, k)'
<1>1. Len(Layers[img]) \in Nat
  BY ImageAssumption, LenProperties
<1>2. HasLayers(img, k - 1)'
  BY <1>1, HasLayersGrows
<1>. QED
  BY <1>2 DEF HasLayers

LEMMA ProgressStep ==
  ASSUME IInv, [Next]_vars
  PROVE  Progress'
<1> USE DEF IInv
<1>0. Grows
  BY StepGrows
<1>1. ASSUME NEW d \in Calls, req'[d] = req[d], req'[d] # None
      PROVE  LeftBehind(d)'
  BY <1>0, <1>1, LeftBehindStays DEF Progress
<1>2. ASSUME NEW c \in Calls, Download(c) \/ Stop(c) \/ Fail(c)
      PROVE  \A d \in Calls \ {c} : req'[d] = req[d]
  BY <1>2 DEF Download, StartDownload, SkipLayer, MissLayer, CopyLayer, LinkLayer,
     CreateLayer, FillLayer, Seed, StartLeecher, Return, CopyToLayout, LinkToLayout,
     PutConfig, PutManifest, CheckReference, WriteReference, Stop, StopDownload,
     StopLayer, DeleteLayer, Fail, LayerDone, LayerStopped, Succeed, Goto, NextLayer,
     End, TypeOK
<1>3. ASSUME NEW c \in Calls, Download(c), req[c] # None, req'[c] # None
      PROVE  LeftBehind(c)'
  <2>1. PICK img \in Images, k \in Nat :
          /\ img = Img(c) /\ k = req[c].k /\ k \in 1..Len(Layers[img])
          /\ Len(Layers[img]) \in Nat
    BY <1>3, RequestPoints
  <2>2. \A n \in {k - 1, k, Len(Layers[img])} : HasLayers(img, n) => HasLayers(img, n)'
    BY <1>0, <2>1, HasLayersGrows
  <2>3. LeftBehind(c) /\ Spot(c) = <<Name[img][1], Layers[img][k]>> /\ Spot(c) \in Spots
    BY <1>3, <2>1, RequestPoints DEF Progress, Spot, Layer
  <2>4. ASSUME NEW at \in Step, Goto(c, at)
        PROVE  /\ req'[c].at = at /\ req'[c].k = k /\ Img(c)' = img
               /\ \A doc \in Documents : Document(c, doc)' = Document(c, doc)
    BY <1>3, <2>1, <2>4, GotoType DEF Img, Document
  <2>5. {"exist", "fetch", "wait", "copy", "config", "manifest", "check", "write",
         "file", "fill", "seed"} \subseteq Step
    BY DEF Step
  <2>6. CASE SkipLayer(c)
    <3>1. HasLayers(img, k)'
      BY <1>0, <2>1, <2>3, <2>6, OneMoreLayer DEF SkipLayer, At, LeftBehind, layout
    <3>. QED
      BY <1>3, <2>1, <2>6, <3>1, LayerDoneLeaves DEF SkipLayer
  <2>7. CASE CopyToLayout(c) \/ LinkToLayout(c)
    <3>1. blobs'[Spot(c)] # None
      BY <2>3, <2>7, ContentAssumption DEF CopyToLayout, LinkToLayout, TypeOK
    <3>2. HasLayers(img, k)'
      BY <1>0, <2>1, <2>3, <2>7, <3>1, OneMoreLayer
         DEF CopyToLayout, LinkToLayout, At, LeftBehind
    <3>. QED
      BY <1>3, <2>1, <2>7, <3>2, LayerDoneLeaves DEF CopyToLayout, LinkToLayout
  <2>8. CASE CopyLayer(c)
    <3>1. blobs'[Spot(c)] # None
      BY <2>3, <2>8, ContentAssumption DEF CopyLayer, TypeOK
    <3>2. HasLayers(img, k)'
      BY <1>0, <2>1, <2>3, <2>8, <3>1, OneMoreLayer DEF CopyLayer, At, LeftBehind
    <3>. QED
      BY <2>4, <2>5, <2>8, <3>2 DEF CopyLayer, LeftBehind
  <2>9. CASE Seed(c)
    <3>1. HasLayers(img, k)'
      BY <2>1, <2>2, <2>3, <2>9 DEF Seed, At, LeftBehind
    <3>. QED
      BY <1>3, <2>1, <2>9, <3>1, LayerDoneLeaves DEF Seed
  <2>10. CASE MissLayer(c) \/ StartLeecher(c) \/ Return(c)
    <3>1. PICK at \in {"fetch", "wait", "copy"} : Goto(c, at)
      BY <2>10 DEF MissLayer, StartLeecher, Return
    <3>2. HasLayers(img, k - 1)'
      BY <2>1, <2>2, <2>3, <2>10 DEF MissLayer, StartLeecher, Return, At, LeftBehind
    <3>. QED
      BY <2>4, <2>5, <3>1, <3>2 DEF LeftBehind
  <2>11. CASE LinkLayer(c) \/ CreateLayer(c) \/ FillLayer(c)
    <3>1. PICK at \in {"fill", "seed"} : Goto(c, at)
      BY <2>11 DEF LinkLayer, CreateLayer, FillLayer
    <3>2. HasLayers(img, k)'
      BY <2>1, <2>2, <2>3, <2>11 DEF LinkLayer, CreateLayer, FillLayer, At, LeftBehind
    <3>. QED
      BY <2>4, <2>5, <3>1, <3>2 DEF LeftBehind
  <2>12. CASE PutConfig(c)
    <3>1. HasLayers(img, Len(Layers[img]))' /\ Goto(c, "manifest")
          /\ (img \in Convertible => Document(c, "config") \in stored')
      BY <2>1, <2>2, <2>3, <2>12 DEF PutConfig, At, LeftBehind
    <3>. QED
      BY <2>4, <2>5, <3>1 DEF LeftBehind, Documents
  <2>13. CASE PutManifest(c)
    <3>1. HasLayers(img, Len(Layers[img]))' /\ Goto(c, "check")
          /\ Document(c, "config") \in stored' /\ Document(c, "manifest") \in stored'
      BY <2>1, <2>2, <2>3, <2>13 DEF PutManifest, At, LeftBehind
    <3>. QED
      BY <2>4, <2>5, <3>1 DEF LeftBehind, Documents
  <2>14. CASE CheckReference(c)
    <3>1. Goto(c, "write")
      BY <1>3, <2>5, <2>14, GotoType DEF CheckReference, Succeed
    <3>2. HasLayers(img, Len(Layers[img]))'
          /\ Document(c, "config") \in stored' /\ Document(c, "manifest") \in stored'
      BY <2>1, <2>2, <2>3, <2>14 DEF CheckReference, At, LeftBehind, layout, Documents
    <3>. QED
      BY <2>4, <2>5, <3>1, <3>2 DEF LeftBehind, Documents
  <2>15. ~WriteReference(c)
    BY <1>3, <2>5, GotoType DEF WriteReference, Succeed
  <2>16. ~\E i \in Images : StartDownload(c, i)
    BY <1>3 DEF StartDownload
  <2>. QED
    BY <1>3, <2>6, <2>7, <2>8, <2>9, <2>10, <2>11, <2>12, <2>13, <2>14, <2>15,
       <2>16 DEF Download
<1>4. ASSUME NEW c \in Calls, Download(c), req[c] = None, req'[c] # None
      PROVE  LeftBehind(c)'
  <2>1. PICK img \in Images : StartDownload(c, img)
    BY <1>4 DEF Download, At, SkipLayer, MissLayer, CopyLayer, LinkLayer, CreateLayer,
       FillLayer, Seed, StartLeecher, Return, CopyToLayout, LinkToLayout, PutConfig,
       PutManifest, CheckReference, WriteReference
  <2>2. req' = [req EXCEPT ![c] = [img |-> img, k |-> 1, at |-> "exist",
                                   clean |-> FALSE]]
    BY <1>4, <2>1 DEF StartDownload
  <2>3. req'[c].k = 1 /\ req'[c].at = "exist"
    BY <2>2 DEF TypeOK
  <2>. QED
    BY <2>3 DEF LeftBehind, HasLayers
<1>5. ASSUME NEW c \in Calls, Stop(c) \/ Fail(c), req'[c] # None
      PROVE  LeftBehind(c)'
  <2>1. req'[c].at \in {"stop", "delete"}
    <3>1. CASE \E name \in Names, clean \in BOOLEAN : StopDownload(c, name, clean)
      BY <3>1 DEF StopDownload, TypeOK
    <3>2. CASE StopLayer(c) \/ DeleteLayer(c)
      BY <1>5, <3>2, GotoType DEF StopLayer, DeleteLayer, LayerStopped, At, Step
    <3>3. ~Fail(c)
      BY <1>5, GotoType DEF Fail, Step
    <3>. QED
      BY <1>5, <3>1, <3>2, <3>3 DEF Stop
  <2>. QED
    BY <2>1 DEF LeftBehind
<1>6. ASSUME NEW c \in Calls, Download(c) \/ Stop(c) \/ Fail(c) PROVE Progress'
  BY <1>1, <1>2, <1>3, <1>4, <1>5, <1>6 DEF Progress
<1>7. CASE Crash
  BY <1>7 DEF Crash, Progress
<1>8. CASE EngineStep \/ UNCHANGED vars
  BY <1>1, <1>8 DEF EngineStep, vars, Progress
<1>. QED
  BY <1>6, <1>7, <1>8 DEF Next

\* Only the last step of a request writes a reference.
LEMMA ReferenceSteps ==
  ASSUME [Next]_vars
  PROVE  UNCHANGED refs \/ \E c \in Calls : WriteReference(c)
<1> USE DEF layout
<1>1. ASSUME NEW c \in Calls, Download(c) PROVE UNCHANGED refs \/ WriteReference(c)
  BY <1>1 DEF Download, StartDownload, SkipLayer, MissLayer, CopyLayer, LinkLayer,
     CreateLayer, FillLayer, Seed, StartLeecher, Return, CopyToLayout, LinkToLayout,
     PutConfig, PutManifest, CheckReference
<1>2. ASSUME NEW c \in Calls, Stop(c) \/ Fail(c) PROVE UNCHANGED refs
  BY <1>2 DEF Stop, StopDownload, StopLayer, DeleteLayer, Fail
<1>3. CASE EngineStep \/ Crash \/ UNCHANGED vars
  BY <1>3 DEF EngineStep, Crash, vars
<1>. QED
  BY <1>1, <1>2, <1>3 DEF Next

LEMMA ReferenceStep ==
  ASSUME IInv, [Next]_vars
  PROVE  ReferenceIsPresent'
<1> USE DEF IInv
<1>0. Grows
  BY StepGrows
<1> SUFFICES ASSUME NEW n \in Names, refs'[n] # None
             PROVE  /\ \A doc \in Documents : <<n[1], refs'[n], doc>> \in stored'
                    /\ \A k \in DOMAIN Layers[refs'[n]] :
                         blobs'[<<n[1], Layers[refs'[n]][k]>>] # None
  BY DEF ReferenceIsPresent
<1>1. CASE refs'[n] = refs[n]
  <2>1. refs[n] \in Images /\ n[1] \in Repos
    BY <1>1, ImageAssumption DEF TypeOK, Names
  <2>2. \A k \in DOMAIN Layers[refs[n]] : <<n[1], Layers[refs[n]][k]>> \in Spots
    BY <2>1, ImageAssumption, LenProperties, ElementOfSeq DEF Spots
  <2>. QED
    BY <1>0, <1>1, <2>2 DEF ReferenceIsPresent, Grows
<1>2. ASSUME NEW c \in Calls, WriteReference(c), refs'[n] # refs[n]
      PROVE  /\ \A doc \in Documents : <<n[1], refs'[n], doc>> \in stored'
             /\ \A k \in DOMAIN Layers[refs'[n]] :
                  blobs'[<<n[1], Layers[refs'[n]][k]>>] # None
  <2>1. /\ req[c] # None /\ LeftBehind(c) /\ req[c].at = "write"
        /\ UNCHANGED <<blobs, stored>>
    BY <1>2 DEF WriteReference, At, Progress
  <2>2. n = Name[Img(c)] /\ refs'[n] = Img(c)
    BY <1>2 DEF WriteReference, TypeOK
  <2>3. Img(c) \in Images /\ DOMAIN Layers[Img(c)] = 1..Len(Layers[Img(c)])
    BY <2>1, RequestPoints, LenProperties
  <2>. QED
    BY <2>1, <2>2, <2>3 DEF LeftBehind, HasLayers, Document, Documents
<1>. QED
  BY <1>1, <1>2, ReferenceSteps

LEMMA InitInv == Init => IInv
<1> SUFFICES ASSUME Init PROVE IInv
  OBVIOUS
<1>1. TypeOK
  BY DEF Init, Engine!Init, TypeOK
<1>2. LinkedHasFile
  BY ContentAssumption DEF Init, LinkedHasFile
<1>3. Progress /\ ReferenceIsPresent
  BY DEF Init, Progress, ReferenceIsPresent
<1>. QED
  BY <1>1, <1>2, <1>3 DEF IInv

\* The invariant of a daemon's requests: a request has left behind what it
\* has passed, and nothing removes it, for a blob that is a link has its file.
THEOREM RequestInvariant == Spec => []IInv
<1>1. IInv /\ [Next]_vars => IInv'
  BY TypeStep, StepGrows, ProgressStep, ReferenceStep DEF IInv
<1>. QED
  BY <1>1, InitInv, PTL DEF Spec

\* A reference leads to a manifest, a config and all layers, whatever requests
\* overlapped, failed, were stopped or died.
THEOREM ReferencesArePresent == Spec => []ReferenceIsPresent
<1>1. IInv => ReferenceIsPresent
  BY DEF IInv
<1>. QED
  BY <1>1, RequestInvariant, PTL

\* On a leecher, an image whose StartDownload has succeeded has a reference.
LEMMA DoneHasReference ==
  ASSUME ~BtSeeder
  PROVE  IInv /\ (\A i \in done : refs[Name[i]] # None) /\ [Next]_vars
            => (\A i \in done : refs[Name[i]] # None)'
<1> SUFFICES ASSUME IInv, \A i \in done : refs[Name[i]] # None, [Next]_vars,
                    NEW i \in done'
             PROVE  refs'[Name[i]] # None
  OBVIOUS
<1> USE DEF IInv
<1>0. /\ \A n \in Names : refs[n] # None => refs'[n] # None
      /\ done \in SUBSET Images /\ refs \in [Names -> Images \cup {None}]
  BY StepGrows DEF Grows, TypeOK
<1>1. CASE i \in done
  BY <1>0, <1>1 DEF Names
<1>2. ASSUME NEW c \in Calls, Download(c), i \notin done PROVE refs'[Name[i]] # None
  <2>1. CASE CheckReference(c)
    <3>1. i = Img(c) /\ i \in Images /\ refs[Name[i]] = i
      BY <1>0, <1>2, <2>1, RequestPoints DEF CheckReference, Succeed, At
    <3>. QED
      BY <1>0, <3>1, ContentAssumption DEF Names
  <2>2. CASE WriteReference(c)
    <3>1. i = Img(c) /\ i \in Images /\ Name[i] \in Names
      BY <1>2, <2>2, RequestPoints DEF WriteReference, Succeed, At
    <3>2. refs'[Name[i]] = i
      BY <1>0, <2>2, <3>1 DEF WriteReference
    <3>. QED
      BY <3>1, <3>2, ContentAssumption
  <2>. QED
    BY <1>2, <2>1, <2>2
       DEF Download, StartDownload, SkipLayer, MissLayer, CopyLayer, LinkLayer,
           CreateLayer, FillLayer, Seed, StartLeecher, Return, CopyToLayout,
           LinkToLayout, PutConfig, PutManifest, LayerDone
<1>3. CASE EngineStep \/ Crash \/ UNCHANGED vars \/ \E c \in Calls : Stop(c) \/ Fail(c)
  BY <1>1, <1>3 DEF EngineStep, Crash, vars, Stop, StopDownload, StopLayer,
                    DeleteLayer, Fail
<1>. QED
  BY <1>1, <1>2, <1>3 DEF Next

\* On a leecher, Status and StopDownload find what StartDownload has reported.
THEOREM DoneImagesAreKnown ==
  ASSUME ~BtSeeder
  PROVE  Spec => []DoneIsKnown
<1>1. Init => \A i \in done : refs[Name[i]] # None
  BY DEF Init
<1>2. IInv /\ (\A i \in done : refs[Name[i]] # None) => DoneIsKnown
  BY DEF IInv, TypeOK, ReferenceIsPresent, DoneIsKnown, Names, Documents
<1>. QED
  BY <1>1, <1>2, DoneHasReference, RequestInvariant, PTL DEF Spec
=============================================================================
