------------------------------- MODULE Daemon --------------------------------
(***************************************************************************)
(* The requests of one daemon (src/daemon): StartDownload on a seeder and  *)
(* on a leecher, StopDownload and what Status reads, over the OCI layouts  *)
(* of the repositories and the engine (EngineService).                     *)
(*                                                                         *)
(* A request is a goroutine of its own that takes no lock, so each of its  *)
(* calls to the layout, the engine or the file system is one action, and   *)
(* between any two of them come other requests, the engine, an error that  *)
(* ends the request, or a crash that ends them all.                        *)
(***************************************************************************)
EXTENDS Integers, Sequences

CONSTANTS
    Ids, Versions, Calls, Peers, BtSeeder, None, Prefix, Torn, Junk, Closed,
                 \* as in EngineService; a call is a slot for a request
    Whole,       \* the content that a layer's digest is the digest of
    Holed,       \* what a copy leaves in a file that another one truncates
    Linked,      \* a blob that is a hard link of the layer file as it is
    Offered,     \* contents of an id of which a seeder may give a leecher the torrent
    Images,      \* images; one stands for its source and its manifest
    Layers,      \* the layers of an image, in order
    Repos,       \* repositories, each with a layout of its own
    Name,        \* the repository and the tag of an image
    Convertible, \* images whose manifest createOciManifest can convert
    UseHardlink, \* config.UseHardlink
    Quiet        \* calls that ask for no progress report

ASSUME ContentAssumption ==
    /\ {Whole, Prefix, Holed} \subseteq Versions
    /\ Whole \notin {Prefix, Holed, Junk}
    /\ Junk \notin {Prefix, Holed}
    /\ Holed # Prefix
    /\ Offered \in [Ids -> SUBSET Versions]
    /\ None \notin Versions \cup {Torn, Junk, Linked} \cup Ids \cup Images
    /\ Linked \notin Versions \cup {Junk}
    /\ Torn \notin Versions
ASSUME RoleAssumption == BtSeeder \in BOOLEAN /\ UseHardlink \in BOOLEAN
ASSUME CallAssumption ==
    /\ None \notin Calls
    /\ Quiet \subseteq Calls
ASSUME ImageAssumption ==
    /\ Layers \in [Images -> Seq(Ids) \ {<<>>}]
    /\ Convertible \subseteq Images
    /\ \A i \in Images : Name[i][1] \in Repos

Names == {Name[i] : i \in Images}
Spots == Repos \X Ids
Documents == {"config", "manifest"}

VARIABLES
    mode, entry, layer, torrentFile, straggler, polling, banned,  \* EngineService
    blobs,    \* the layer blobs of each layout: absent, a content or Linked
    stored,   \* the configs and manifests in the layouts
    refs,     \* the references: the image whose manifest a name stands for
    made,     \* how far the directory of each layout is made
    req,      \* the requests: image, layer reached, next step
    copier,   \* the request that was last to truncate a layer file
    done,     \* history: images whose StartDownload has succeeded
    spoiled,  \* history: ids whose way to being seeded a failure or a crash
              \* has interrupted, or that were stopped while a chunk came in
    clashed   \* history: ids whose layer file a request has truncated while
              \* another was yet to seed it

Engine == INSTANCE EngineService

engine == <<mode, entry, layer, torrentFile, straggler, polling, banned>>
layout == <<blobs, stored, refs, made>>
vars == <<engine, layout, req, copier, done, spoiled, clashed>>

Step == {"exist", "fetch",                                   \* StartDownload
         "wait", "copy", "config", "manifest", "check", "write",  \* leecher
         "file", "fill", "seed",                                  \* seeder
         "stop", "delete"}                                   \* StopDownload

Request == [img : Images, k : Nat \ {0}, at : Step, clean : BOOLEAN]
Entry == [v : Versions, stage : Engine!Stage]

ASSUME RecordAssumption == None \notin Request \cup Entry

TypeOK ==
    /\ mode \in {"down", "booting", "up"}
    /\ entry \in [Ids -> Entry \cup {None}]
    /\ layer \in [Ids -> Versions \cup {None, Junk}]
    /\ torrentFile \in [Ids -> Versions \cup {None, Torn}]
    /\ straggler \in SUBSET Ids
    /\ polling \in [Calls -> Ids \cup {None, Closed}]
    /\ banned \in SUBSET Peers
    /\ blobs \in [Spots -> Versions \cup {None, Junk, Linked}]
    /\ stored \in SUBSET (Repos \X Images \X Documents)
    /\ refs \in [Names -> Images \cup {None}]
    /\ made \in [Repos -> {"none", "half", "whole"}]
    /\ req \in [Calls -> Request \cup {None}]
    /\ \A c \in Calls : req[c] # None => req[c].k <= Len(Layers[req[c].img])
    /\ copier \in [Ids -> Calls \cup {None}]
    /\ done \in SUBSET Images
    /\ spoiled \in SUBSET Ids
    /\ clashed \in SUBSET Ids

Init ==
    /\ Engine!Init
    /\ blobs = [s \in Spots |-> None]
    /\ stored = {}
    /\ refs = [n \in Names |-> None]
    /\ made = [r \in Repos |-> "none"]
    /\ req = [c \in Calls |-> None]
    /\ copier = [id \in Ids |-> None]
    /\ done = {}
    /\ spoiled = {}
    /\ clashed = {}
-----------------------------------------------------------------------------
(* The course of a request *)

At(c, at) == req[c] # None /\ req[c].at = at
Img(c) == req[c].img
Layer(c) == Layers[Img(c)][req[c].k]
Spot(c) == <<Name[Img(c)][1], Layer(c)>>
Document(c, doc) == <<Name[Img(c)][1], Img(c), doc>>
MoreThanOne(c) == req[c].k + 1 < Len(Layers[Img(c)])  \* mutant: off by one
MoreOrSame(c) == req[c].k <= Len(Layers[Img(c)])  \* mutant: off by one
MoreLayers(c) == req[c].k < Len(Layers[Img(c)])

Goto(c, at) == req' = [req EXCEPT ![c].at = at]
NextLayer(c, at) == req' = [req EXCEPT ![c].k = @ + 1, ![c].at = at]
End(c) == req' = [req EXCEPT ![c] = None]
Succeed(c) == End(c) /\ done' = done \cup {Img(c)}

\* The end of the loop's body: the next layer, or what follows the loop.
LayerDone(c) ==
    \/ MoreLayers(c) /\ NextLayer(c, "exist") /\ UNCHANGED done
    \/ ~MoreLayers(c) /\ BtSeeder /\ Succeed(c)
    \/ ~MoreLayers(c) /\ ~BtSeeder /\ Goto(c, "config") /\ UNCHANGED done

\* The ids that c is bringing from its layout to the engine.
Seeding(c) == At(c, "file") \/ At(c, "fill") \/ At(c, "seed")
InHand == {Layer(c) : c \in {c \in Calls : Seeding(c)}}

\* Content of a blob, through a hard link that of the layer file.
Content(s) == IF blobs[s] = Linked THEN layer[s[2]] ELSE blobs[s]

\* A blob keeps its content when the layer file's name is removed.
KeepLinked(id) ==
    blobs' = [s \in Spots |->
                IF s[2] = id /\ layer'[id] = None THEN Content(s) ELSE blobs[s]]

\* The first call for a repository makes its layout, in which it may fail on
\* the way; every later call for a half-made layout is refused.  A call of
\* Status or StopDownload for an image that is not there, which opens the layout
\* as well, may leave behind what a StartDownload does that fails at once.
StartDownload(c, img) ==
    LET repo == Name[img][1]
    IN /\ mode = "up"
       /\ req[c] = None
       /\ \/ /\ made[repo] # "half"
             /\ made' = [made EXCEPT ![repo] = "whole"]
             /\ req' = [req EXCEPT ![c] = [img |-> img, k |-> 1, at |-> "exist",
                                           clean |-> FALSE]]
          \/ /\ made[repo] = "none"
             /\ made' = [made EXCEPT ![repo] = "half"]
             /\ UNCHANGED req
       /\ UNCHANGED <<engine, blobs, stored, refs, copier, clashed, done, spoiled>>

SkipToEnd(c) ==  \* mutant: an image whose last layer is there is done
    /\ At(c, "exist")
    /\ blobs[Spot(c)] # None
    /\ IF MoreLayers(c) THEN LayerDone(c) ELSE Succeed(c)
    /\ UNCHANGED <<engine, layout, copier, clashed, spoiled>>
SkipLayer(c) ==
    /\ At(c, "exist")
    /\ blobs[Spot(c)] # None
    /\ LayerDone(c)
    /\ UNCHANGED <<engine, layout, copier, clashed, spoiled>>

MissLayer(c) ==
    /\ At(c, "exist")
    /\ blobs[Spot(c)] = None
    /\ Goto(c, "fetch")
    /\ UNCHANGED <<engine, layout, copier, clashed, done, spoiled>>
-----------------------------------------------------------------------------
(* The seeder's share: copyLayer and startSeedingLayer *)

CopyLayer(c) ==
    /\ At(c, "fetch") /\ BtSeeder
    /\ blobs' = [blobs EXCEPT ![Spot(c)] = Whole]
    /\ Goto(c, "file")
    /\ UNCHANGED <<engine, stored, refs, made, copier, clashed, done, spoiled>>

\* os.Link refuses an existing layer file.
LinkOrCopyLayer(c) ==  \* mutant: an existing file is overwritten instead
    /\ At(c, "file") /\ UseHardlink
    /\ IF layer[Layer(c)] = None
         THEN Engine!WriteLayer(Layer(c), Whole)
              /\ blobs' = [blobs EXCEPT ![Spot(c)] = Linked]
         ELSE Engine!WriteLayer(Layer(c), Prefix) /\ UNCHANGED blobs
    /\ Goto(c, "seed")
    /\ UNCHANGED <<stored, refs, made, copier, clashed, done, spoiled>>
LinkLayer(c) ==
    /\ At(c, "file") /\ UseHardlink
    /\ layer[Layer(c)] = None
    /\ Engine!WriteLayer(Layer(c), Whole)
    /\ blobs' = [blobs EXCEPT ![Spot(c)] = Linked]
    /\ Goto(c, "seed")
    /\ UNCHANGED <<stored, refs, made, copier, clashed, done, spoiled>>

\* Another request is at that step of the same layer.
Overlaps(c, at) == \E d \in Calls \ {c} : At(d, at) /\ Layer(d) = Layer(c)

\* os.Create truncates the file, also while the engine seeds it, or another
\* request copies to it, which then goes on from where it was.
CreateLayer(c) ==
    /\ At(c, "file") /\ ~UseHardlink
    /\ \/ Engine!WriteLayer(Layer(c), Prefix)
       \/ Overlaps(c, "fill") /\ Engine!WriteLayer(Layer(c), Holed)
    /\ copier' = [copier EXCEPT ![Layer(c)] = c]
    /\ clashed' = IF Overlaps(c, "fill") \/ Overlaps(c, "seed")
                    THEN clashed \cup {Layer(c)} ELSE clashed
    /\ Goto(c, "fill")
    /\ UNCHANGED <<layout, done, spoiled>>

FillOrLeave(c) ==  \* mutant: nobody looks at the error of io.Copy
    /\ At(c, "fill")
    /\ layer' \in {layer, [layer EXCEPT ![Layer(c)] = Whole]}
    /\ Goto(c, "seed")
    /\ UNCHANGED <<mode, entry, torrentFile, straggler, polling, banned, layout,
                   copier, clashed, done, spoiled>>
\* io.Copy ends.  The last to truncate has written every byte; what one wrote that
\* was truncated under its feet begins where it was then, and the other may have
\* got that far or not.  A chunk that the engine wrote meanwhile, and that does not
\* belong to the layer, may stay.
FillLayer(c) ==
    /\ At(c, "fill")
    /\ IF copier[Layer(c)] = c
         THEN /\ \E content \in {Whole} \cup ({layer[Layer(c)]} \cap {Junk, Holed}) :
                   layer' = [layer EXCEPT ![Layer(c)] = content]
              /\ copier' = [copier EXCEPT ![Layer(c)] = None]
         ELSE /\ \/ UNCHANGED layer
                 \/ /\ layer[Layer(c)] \in {Prefix, Holed, Junk}
                    /\ \E content \in {Holed, Whole} :
                         layer' = [layer EXCEPT ![Layer(c)] = content]
              /\ UNCHANGED copier
    /\ Goto(c, "seed")
    /\ UNCHANGED <<mode, entry, torrentFile, straggler, polling, banned, layout,
                   done, spoiled, clashed>>

\* An error of StartSeed is logged, and the success reported all the same.
Seed(c) ==
    /\ At(c, "seed")
    /\ \/ Engine!StartSeed(Layer(c)) \/ Engine!StartSeedTorn(Layer(c))
       \/ UNCHANGED engine
    /\ spoiled' = IF entry'[Layer(c)] = None THEN spoiled \cup {Layer(c)}
                  ELSE spoiled
    /\ LayerDone(c)
    /\ UNCHANGED <<layout, copier, clashed>>
-----------------------------------------------------------------------------
(* The leecher's share: startLeechingLayer, config, manifest, reference *)

\* The torrent comes from the seeder; a layer that is started already counts
\* one user more and the call does not wait.
StartLeecherJoins(c) ==  \* mutant: a call that joins waits on no torrent
    /\ At(c, "fetch") /\ ~BtSeeder
    /\ \/ Engine!Started(Layer(c)) /\ Goto(c, "wait") /\ UNCHANGED engine
       \/ \E v \in Offered[Layer(c)] :
            Engine!StartLeecher(Layer(c), v, c) /\ Goto(c, "wait")
    /\ UNCHANGED <<layout, copier, clashed, done, spoiled>>
StartLeecher(c) ==
    /\ At(c, "fetch") /\ ~BtSeeder
    /\ \/ Engine!Started(Layer(c)) /\ Goto(c, "copy") /\ UNCHANGED engine
       \/ \E v \in Offered[Layer(c)] :
            IF c \in Quiet
              THEN Engine!StartLeecher(Layer(c), v, None) /\ Goto(c, "copy")
              ELSE Engine!StartLeecher(Layer(c), v, c) /\ Goto(c, "wait")
    /\ UNCHANGED <<layout, copier, clashed, done, spoiled>>

Return(c) ==
    /\ At(c, "wait")
    /\ Engine!Return(c)
    /\ Goto(c, "copy")
    /\ UNCHANGED <<layout, copier, clashed, done, spoiled>>

\* PutBlob names what it has read by its digest.
CopyUnchecked(c) ==  \* mutant: it is named by the digest wanted
    /\ At(c, "copy") /\ ~UseHardlink
    /\ layer[Layer(c)] # None
    /\ blobs' = [blobs EXCEPT ![Spot(c)] = layer[Layer(c)]]
    /\ LayerDone(c)
    /\ UNCHANGED <<engine, stored, refs, made, copier, clashed, spoiled>>
CopyToLayout(c) ==
    /\ At(c, "copy") /\ ~UseHardlink
    /\ layer[Layer(c)] = Whole
    /\ blobs' = [blobs EXCEPT ![Spot(c)] = Whole]
    /\ LayerDone(c)
    /\ UNCHANGED <<engine, stored, refs, made, copier, clashed, spoiled>>

LinkToLayout(c) ==
    /\ At(c, "copy") /\ UseHardlink
    /\ layer[Layer(c)] # None
    /\ blobs[Spot(c)] = None
    /\ blobs' = [blobs EXCEPT ![Spot(c)] = Linked]
    /\ LayerDone(c)
    /\ UNCHANGED <<engine, stored, refs, made, copier, clashed, spoiled>>

\* An image without a config, whose manifest is of a kind that cannot be converted,
\* gets no further than the manifest.
PutConfigLater(c) ==  \* mutant: a config is taken for stored unread
    At(c, "config") /\ Goto(c, "manifest")
    /\ UNCHANGED <<engine, layout, copier, clashed, done, spoiled>>
PutConfig(c) ==
    /\ At(c, "config")
    /\ \/ stored' = stored \cup {Document(c, "config")}
       \/ Img(c) \notin Convertible /\ UNCHANGED stored
    /\ Goto(c, "manifest")
    /\ UNCHANGED <<engine, blobs, refs, made, copier, clashed, done, spoiled>>

PutManifest(c) ==
    /\ At(c, "manifest")
    /\ Img(c) \in Convertible
    /\ stored' = stored \cup {Document(c, "manifest")}
    /\ Goto(c, "check")
    /\ UNCHANGED <<engine, blobs, refs, made, copier, clashed, done, spoiled>>

\* PutReference looks at the name, and later renames over it.
CheckReference(c) ==
    /\ At(c, "check")
    /\ \/ refs[Name[Img(c)]] = None /\ Goto(c, "write") /\ UNCHANGED done
       \/ refs[Name[Img(c)]] = Img(c) /\ Succeed(c)
    /\ UNCHANGED <<engine, layout, copier, clashed, spoiled>>

WriteReference(c) ==
    /\ At(c, "write")
    /\ refs' = [refs EXCEPT ![Name[Img(c)]] = Img(c)]
    /\ Succeed(c)
    /\ UNCHANGED <<engine, blobs, stored, made, copier, clashed, spoiled>>
-----------------------------------------------------------------------------
(* StopDownload *)

\* The layers to stop are those of the manifest that the reference names.
StopDownload(c, name, clean) ==
    /\ mode = "up"
    /\ req[c] = None
    /\ refs[name] # None
    /\ <<name[1], refs[name], "manifest">> \in stored
    /\ req' = [req EXCEPT ![c] = [img |-> refs[name], k |-> 1, at |-> "stop",
                                  clean |-> clean]]
    /\ UNCHANGED <<engine, layout, copier, clashed, done, spoiled>>

LayerStopped(c) == IF MoreLayers(c) THEN NextLayer(c, "stop") ELSE End(c)

\* Nothing changes if the layer is not started or has other users.
StopLayer(c) ==
    /\ At(c, "stop")
    /\ Engine!StopTorrent(Layer(c)) \/ UNCHANGED engine
    /\ IF req[c].clean THEN Goto(c, "delete") ELSE LayerStopped(c)
    /\ spoiled' = spoiled \cup (straggler' \ straggler)
    /\ UNCHANGED <<layout, copier, clashed, done>>

\* An error of DeleteTorrent is logged.
DeleteLayer(c) ==
    /\ At(c, "delete")
    /\ \/ Engine!DeleteTorrent(Layer(c)) /\ KeepLinked(Layer(c))
       \/ ~Engine!Deletable(Layer(c)) /\ UNCHANGED <<engine, blobs>>
    /\ LayerStopped(c)
    /\ UNCHANGED <<stored, refs, made, copier, clashed, done, spoiled>>
-----------------------------------------------------------------------------
(* Errors and crashes *)

\* The request returns an error, of the registry, the seeder, the layout, the
\* engine or the file system.  Nothing interrupts the loop of waitComplete.
Fail(c) ==
    /\ req[c] # None
    /\ ~At(c, "wait")
    /\ End(c)
    /\ spoiled' = IF Seeding(c) THEN spoiled \cup {Layer(c)} ELSE spoiled
    /\ copier' = [id \in Ids |-> IF copier[id] = c THEN None ELSE copier[id]]
    /\ UNCHANGED <<engine, layout, done, clashed>>

\* The errors it cannot but return: a file that is missing or has another
\* digest, a link that exists, a manifest of another kind, ErrClobber.  That of a
\* half-made layout comes before there is a request: StartDownload is disabled.
Refused(c) ==
    /\ \/ At(c, "copy") /\ ~UseHardlink /\ layer[Layer(c)] # Whole
       \/ At(c, "copy") /\ UseHardlink
            /\ (layer[Layer(c)] = None \/ blobs[Spot(c)] # None)
       \/ At(c, "file") /\ UseHardlink /\ layer[Layer(c)] # None
       \/ At(c, "manifest") /\ Img(c) \notin Convertible
       \/ At(c, "check") /\ refs[Name[Img(c)]] \notin {None, Img(c)}
    /\ Fail(c)

\* A crash may catch the first call for a repository while it makes the layout.
Crash ==
    /\ \E repos \in SUBSET {r \in Repos : mode = "up" /\ made[r] = "none"} :
         made' = [r \in Repos |-> IF r \in repos THEN "half" ELSE made[r]]
    /\ \/ Engine!Crash /\ UNCHANGED blobs
       \/ \E c \in Calls :
            At(c, "seed") /\ Engine!CrashInStartSeed(Layer(c)) /\ UNCHANGED blobs
       \/ \E c \in Calls :
            /\ At(c, "delete")
            /\ Engine!CrashInDelete(Layer(c))
            /\ KeepLinked(Layer(c))
    /\ req' = [c \in Calls |-> None]
    /\ copier' = [id \in Ids |-> None]
    /\ spoiled' = spoiled \cup InHand
    /\ UNCHANGED <<stored, refs, done, clashed>>
Fault == Crash \/ \E c \in Calls : Fail(c) /\ ~Refused(c)
-----------------------------------------------------------------------------

\* NewDaemon runs the engine, which then works on its own.
EngineStep ==
    /\ Engine!RunBegin \/ Engine!RunEnd \/ \E id \in Ids : Engine!Work(id)
    /\ UNCHANGED <<layout, req, copier, clashed, done, spoiled>>

Download(c) ==
    \/ \E img \in Images : StartDownload(c, img)
    \/ SkipLayer(c) \/ MissLayer(c)
    \/ CopyLayer(c) \/ LinkLayer(c) \/ CreateLayer(c) \/ FillLayer(c) \/ Seed(c)
    \/ StartLeecher(c) \/ Return(c) \/ CopyToLayout(c) \/ LinkToLayout(c)
    \/ PutConfig(c) \/ PutManifest(c) \/ CheckReference(c) \/ WriteReference(c)

Stop(c) ==
    \/ \E name \in Names, clean \in BOOLEAN : StopDownload(c, name, clean)
    \/ StopLayer(c) \/ DeleteLayer(c)

Next ==
    \/ EngineStep
    \/ \E c \in Calls : Download(c) \/ Stop(c) \/ Fail(c)
    \/ Crash

Spec == Init /\ [][Next]_vars

\* A leecher whose users retry and never stop a download.  The engine then
\* hands no caller a dropped object, for it has dropped none since it started.
LiveNext ==
    /\ EngineStep \/ (\E c \in Calls : Download(c) \/ Fail(c)) \/ Crash
    /\ \A c \in Calls : polling'[c] # Closed

\* What the engine does for a started torrent (FreshStartCompletes and
\* WaiterReturns of BtEngine), while it has a peer left to fetch from.
Hash(id) ==
    Engine!HashPiece(id) /\ UNCHANGED <<layout, req, copier, clashed, done, spoiled>>
Fetch(id) ==
    /\ Engine!WriteChunk(id, Whole)
    /\ UNCHANGED <<layout, req, copier, clashed, done, spoiled>>

\* The daemon is started again after a crash, a request goes on to its end and
\* is made again, and not every chunk that arrives is bad, as long as the client
\* has not banned all peers.
Fairness ==
    /\ WF_vars(EngineStep /\ mode' # mode)
    /\ \A id \in Ids : WF_vars(Hash(id)) /\ SF_vars(banned # Peers /\ Fetch(id))
    /\ \A c \in Calls : WF_vars(Download(c) \/ Refused(c))
    /\ \A img \in Images : SF_vars(\E c \in Calls : StartDownload(c, img))

LiveSpec == Init /\ [][LiveNext]_vars /\ Fairness
-----------------------------------------------------------------------------
(* Safety *)

\* A reference leads to a manifest, a config and all layers in its layout,
\* whatever requests overlapped, failed, were stopped or died before it.
ReferenceIsPresent ==
    \A n \in Names : refs[n] # None =>
        /\ \A doc \in Documents : <<n[1], refs[n], doc>> \in stored
        /\ \A k \in DOMAIN Layers[refs[n]] :
             blobs[<<n[1], Layers[refs[n]][k]>>] # None

\* No layout has a blob that is not what its digest says, although callers go
\* on before a download is verified and a second caller does not wait at all.
LayoutIsWhole == \A s \in Spots : Content(s) \in {None, Whole}

\* Status calls a layer the engine does not know complete.  It is right:
\* stopped, deleted or forgotten in a crash, the layer is in the layout.
StatusIsTrue ==
    \A n \in Names : refs[n] # None =>
        \A k \in DOMAIN Layers[refs[n]] :
            LET id == Layers[refs[n]][k]
            IN entry[id] = None => Content(<<n[1], id>>) = Whole

\* Once StartDownload has returned success, Status and StopDownload find the
\* reference and the manifest of the image.
DoneIsKnown ==
    \A i \in done :
        /\ refs[Name[i]] # None
        /\ <<Name[i][1], refs[Name[i]], "manifest">> \in stored

\* A layer in a seeder's layout, which every later request skips, is seeded,
\* or a request is about to, unless an error or a crash came in between.  A
\* crash after that does no harm.
StoredIsSeeded ==
    BtSeeder /\ mode = "up" => \A s \in Spots :
        blobs[s] # None =>
            Engine!Started(s[2]) \/ s[2] \in InHand \/ s[2] \in spoiled

\* Every torrent file that decodes is the torrent of the layer itself, unless
\* a request truncated the layer file between another's write and StartSeed:
\* no error, crash or bad chunk makes a daemon seed anything else.
TorrentIsWhole ==
    \A id \in Ids \ clashed : torrentFile[id] \in {None, Torn, Whole}

\* What one would expect of the code and it does not do; a configuration for each
\* shows the counterexample.

\* The same of every layer, though a second copy truncates the first.
EveryTorrentIsWhole == \A id \in Ids : torrentFile[id] \in {None, Torn, Whole}

\* The client is told "Start seeding <id> success" (src/README.md:41) of each
\* layer: with no request on its way, the layers of a done image are started.
DoneIsSeeded ==
    BtSeeder /\ mode = "up" /\ (\A c \in Calls : req[c] = None) =>
        \A i \in done : \A k \in DOMAIN Layers[i] :
            Engine!Started(Layers[i][k])

\* "stop download" (src/cmd/ctr/main.go:155): with no request on its way, a
\* started layer belongs to an image that StopDownload can find.
StartedIsStoppable ==
    ~BtSeeder /\ (\A c \in Calls : req[c] = None) =>
        \A id \in Ids : Engine!Started(id) =>
            \E n \in Names :
                /\ refs[n] # None
                /\ \E k \in DOMAIN Layers[refs[n]] : Layers[refs[n]][k] = id

-----------------------------------------------------------------------------
(* The strengthening that makes the safety properties inductive *)

\* A blob that is a link has its file, so that deleting it loses no blob.
LinkedHasFile == \A s \in Spots : blobs[s] = Linked => layer[s[2]] # None

\* The first n layers of an image are in its layout.
HasLayers(img, n) ==
    \A k \in 1..n : blobs[<<Name[img][1], Layers[img][k]>>] # None

\* What a download has left behind by the time it gets to a step.
LeftBehind(c) ==
    /\ req[c].at \in {"exist", "fetch", "wait", "copy"}
         => HasLayers(Img(c), req[c].k - 1)
    /\ req[c].at \in {"file", "fill", "seed"} => HasLayers(Img(c), req[c].k)
    /\ req[c].at \in {"config", "manifest", "check", "write"}
         => HasLayers(Img(c), Len(Layers[Img(c)]))
    /\ req[c].at = "manifest" /\ Img(c) \in Convertible
         => Document(c, "config") \in stored
    /\ req[c].at \in {"check", "write"}
         => \A doc \in Documents : Document(c, doc) \in stored

Progress == \A c \in Calls : req[c] # None => LeftBehind(c)

IInv == TypeOK /\ LinkedHasFile /\ Progress /\ ReferenceIsPresent

\* A seeder never writes a reference, hence never stops or deletes a torrent;
\* what it has started it can start again.
SeederOnlySeeds ==
    BtSeeder =>
        /\ straggler = {}
        /\ refs = [n \in Names |-> None]
        /\ \A c \in Calls : req[c] # None =>
             /\ req[c].at \in {"exist", "fetch", "file", "fill", "seed"}
             /\ req[c].at \in {"fill", "seed"} => layer[Layer(c)] # None
        /\ \A id \in Ids : entry[id] # None =>
             /\ entry[id].stage # "stopped"
             /\ layer[id] # None
             /\ torrentFile[id] = entry[id].v

\* Requests are served by a daemon that is up.
CallsAreServed == \A c \in Calls : req[c] # None => mode = "up"

\* A layer in a seeder's layout can be seeded by the next daemon as well.
StoredIsSeedable ==
    BtSeeder => \A s \in Spots : blobs[s] # None =>
        \/ layer[s[2]] # None /\ torrentFile[s[2]] \in Versions
        \/ s[2] \in InHand
        \/ s[2] \in spoiled

SeederInv ==
    TypeOK /\ CallsAreServed /\ SeederOnlySeeds /\ StoredIsSeedable /\ StoredIsSeeded

\* A request that no other has disturbed seeds nothing but the layer itself.
SeedIsWhole ==
    BtSeeder =>
        /\ TorrentIsWhole
        /\ \A id \in Ids \ clashed : layer[id] # Holed
        /\ \A c \in Calls :
             /\ At(c, "seed") => layer[Layer(c)] \in {Whole, Junk} \/ Layer(c) \in clashed
             /\ At(c, "fill") => copier[Layer(c)] = c \/ Layer(c) \in clashed

\* A bad chunk reaches a seeder's file only for a torrent it has made, so that it
\* never becomes a torrent of its own.
JunkHasTorrent ==
    BtSeeder =>
        \A id \in Ids : layer[id] = Junk => torrentFile[id] \in Versions

\* Copies are whole; a link is made only where links are used.
BlobsAreCopies ==
    IF UseHardlink THEN clashed = {} /\ \A c \in Calls : ~At(c, "fill")
                   ELSE \A s \in Spots : blobs[s] \in {None, Whole}

\* A seeder that links has nothing to fetch.
LinksAreWhole ==
    BtSeeder /\ UseHardlink =>
        /\ \A id \in Ids :
             /\ layer[id] \in {None, Whole}
             /\ entry[id] # None => entry[id].stage # "missing"
        /\ \A s \in Spots : blobs[s] \in {None, Whole, Linked}

\* A leecher fetches what is offered; with hard links, and but for a chunk left
\* behind, a layer file holds nothing else.
FetchIsOffered ==
    ~BtSeeder =>
        \A id \in Ids :
            /\ entry[id] # None => entry[id].v \in Offered[id]
            /\ UseHardlink /\ id \notin spoiled =>
                 layer[id] \in Offered[id] \cup {None, Junk}

\* With hard links a torrent fetches only what its file lacks, unless a chunk
\* of an earlier start was left behind.
FetchIsNeeded ==
    /\ straggler \subseteq spoiled
    /\ UseHardlink =>
         \A id \in Ids \ spoiled :
            entry[id] # None /\ entry[id].stage = "missing" => layer[id] # Whole

-----------------------------------------------------------------------------
(* Action properties *)

\* With hard links the engine writes the file that the layout reads: a new
\* start after a stop, a delete or a crash never harms a blob that is whole,
\* unless a stop left a chunk behind, whose write is then unordered.
WholeStaysWhole ==
    [][\A s \in Spots :
         Content(s) = Whole /\ s[2] \notin spoiled => Content(s)' = Whole]_vars

\* A torrent that a seeder has made it keeps, through errors, crashes, starts
\* and other requests: all leechers of a layer get the same one.
TorrentIsKept ==
    [][BtSeeder =>
         \A id \in Ids :
            torrentFile[id] \in Versions => torrentFile'[id] = torrentFile[id]]_vars

-----------------------------------------------------------------------------
(* What it promises *)

Store == INSTANCE ImageStore WITH
    held <- {s \in Spots : blobs[s] # None} \cup stored,
    LayersOf <- [i \in Images |->
                   {<<Name[i][1], Layers[i][k]>> : k \in DOMAIN Layers[i]}],
    DocsOf <- [i \in Images |-> {<<Name[i][1], i, doc>> : doc \in Documents}],
    Publishes <- ~BtSeeder

\* To its clients a daemon is a store of images that only grows, publishes what
\* is complete and reports what it has published.
ImplementsImageStore == Store!Spec

-----------------------------------------------------------------------------
(* What it rests on *)

\* All that a daemon does to its engine, its requests' copies to the layer files
\* among it, is what EngineService allows, which BtEngine implements.
UsesEngineService == Engine!Spec

Items == Spots \cup (Repos \X Images \X Documents)

Layouts == INSTANCE LayoutStore WITH
    Blobs <- Items,
    blobs <- [d \in Items |->
                IF d \in {s \in Spots : Content(s) = Whole} \cup stored
                  THEN d ELSE None],
    refs <- [n \in Names |->
               IF refs[n] = None THEN None ELSE <<n[1], refs[n], "manifest">>]

\* Where blobs are copied, what it does to its layouts is what LayoutStore allows
\* concurrent callers, which OciLayout implements.
UsesLayoutStore == Layouts!WeakSpec

\* The same of the documented store, whose references nobody overwrites.
UsesDocumentedStore == Layouts!Spec

-----------------------------------------------------------------------------
(* Liveness *)

\* A client that retries gets its image and its reference once crashes and
\* errors stop, in spite of those before, of bad pieces and of other requests
\* for the same layers: one that does not wait, or whose download is not
\* verified, copies too early, fails, and is in nobody's way.  Two things are past
\* repair: a layout whose first call failed or died while it made it, and a
\* client that has banned every peer for a piece that failed its hash.
ImageArrives ==
    <>[][~Fault]_vars => \A i \in Images :
        \/ <>(refs[Name[i]] = i)
        \/ <>[](made[Name[i][1]] = "half")
        \/ <>[](banned = Peers)

\* What one would expect without them; a configuration for each shows the
\* counterexample.

\* "Start download": the reference appears, if only not all peers are banned.
EveryLayoutServes ==
    <>[][~Fault]_vars => \A i \in Images :
        <>(refs[Name[i]] = i) \/ <>[](banned = Peers)

\* The same, if only the layout is whole.
EveryPieceArrives ==
    <>[][~Fault]_vars => \A i \in Images :
        <>(refs[Name[i]] = i) \/ <>[](made[Name[i][1]] = "half")
=============================================================================
