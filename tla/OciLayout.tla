------------------------------ MODULE OciLayout -------------------------------
(***************************************************************************)
(* The OCI image layout directory of one repository (src/oci/dir.go) and   *)
(* the requests of the daemon that use it.  Every request opens the layout *)
(* for itself and nothing is locked: a file system call is one action, the *)
(* calls of different requests interleave, any call may fail, and the      *)
(* daemon may crash between two of them.                                   *)
(***************************************************************************)
EXTENDS Naturals

CONSTANTS
    Procs,    \* requests, each with a dirLayout of its own while it has one
    Blobs,    \* contents; a digest, and a descriptor of it, stand for theirs
    Names,    \* reference names
    None,     \* no file, no directory
    Empty,    \* a temporary directory without a file
    Partial   \* a file that is not written to its end

ASSUME ContentAssumption ==
    /\ None \notin Blobs \cup {Empty, Partial}
    /\ Empty \notin Blobs \cup {Partial}
    /\ Partial \notin Blobs
ASSUME NameAssumption == None \notin Names

VARIABLES
    dirs,    \* the directories initialize has made under the path
    layout,  \* the oci-layout file exists
    blobs,   \* blobs/sha256/<digest>
    refs,    \* refs/<name>
    temp,    \* a request's temporary directory: the file it holds, if any
    pc,      \* where a request is
    target   \* what it is putting: <<name, descriptor>> or <<None, content>>

disk == <<dirs, layout, blobs, refs>>
vars == <<dirs, layout, blobs, refs, temp, pc, target>>

Dir == {"blobs", "sha256", "refs"}
Opening == {"blobs", "sha256", "refs", "layout", "temp"}
Using == {"open", "writing", "written"}
NoTarget == <<None, None>>
Target == (Names \cup {None}) \X (Blobs \cup {None})

TypeOK ==
    /\ dirs \in SUBSET Dir
    /\ layout \in BOOLEAN
    /\ blobs \in [Blobs -> Blobs \cup {None, Partial}]
    /\ refs \in [Names -> Blobs \cup {None, Partial}]
    /\ temp \in [Procs -> Blobs \cup {None, Empty, Partial}]
    /\ pc \in [Procs -> {"closed"} \cup Opening \cup Using]
    /\ target \in [Procs -> Target]

Init ==
    /\ dirs = {}
    /\ layout = FALSE
    /\ blobs = [d \in Blobs |-> None]
    /\ refs = [n \in Names |-> None]
    /\ temp = [p \in Procs |-> None]
    /\ pc = [p \in Procs |-> "closed"]
    /\ target = [p \in Procs |-> NoTarget]

Goto(p, to) == pc' = [pc EXCEPT ![p] = to]
-----------------------------------------------------------------------------
(* newDirLayout and initialize *)

\* Make the path and its parents, then look for the oci-layout file.
Open(p) ==
    /\ pc[p] = "closed"
    /\ Goto(p, IF layout THEN "temp" ELSE "blobs")
    /\ UNCHANGED <<disk, temp, target>>

\* os.Mkdir of the directory pc names: an error when it is there.
AfterDirTooSoon(d) ==  \* mutant: oci-layout is created before refs
    CASE d = "blobs" -> "sha256" [] d = "sha256" -> "layout"
      [] d = "refs" -> "temp"
AfterDir(d) ==
    CASE d = "blobs" -> "sha256" [] d = "sha256" -> "refs"
      [] d = "refs" -> "layout"

MayMakeAll(d) == TRUE  \* mutant: MkdirAll, which takes an existing directory
MayMake(d) == d \notin dirs

Mkdir(p) ==
    /\ pc[p] \in Dir
    /\ MayMake(pc[p])
    /\ dirs' = dirs \cup {pc[p]}
    /\ Goto(p, AfterDir(pc[p]))
    /\ UNCHANGED <<layout, blobs, refs, temp, target>>

MkdirExists(p) ==
    /\ pc[p] \in Dir
    /\ ~MayMake(pc[p])
    /\ Goto(p, "closed")
    /\ UNCHANGED <<disk, temp, target>>

\* The oci-layout file is created; writing it may still fail the call.
CreateLayout(p) ==
    /\ pc[p] = "layout"
    /\ layout' = TRUE
    /\ Goto(p, "temp") \/ Goto(p, "closed")
    /\ UNCHANGED <<dirs, blobs, refs, temp, target>>

MakeTemp(p) ==
    /\ pc[p] = "temp"
    /\ temp' = [temp EXCEPT ![p] = Empty]
    /\ Goto(p, "open")
    /\ UNCHANGED <<disk, target>>
-----------------------------------------------------------------------------
(* Operations on an open layout *)

\* PutBlob and PutReference write to a new file of the temporary directory.
BeginWrite(p, t) ==
    /\ pc[p] = "open"
    /\ target' = [target EXCEPT ![p] = t]
    /\ temp' = [temp EXCEPT ![p] = Partial]
    /\ Goto(p, "writing")
    /\ UNCHANGED disk

PutBlob(p, d) == BeginWrite(p, <<None, d>>)

\* PutReference goes on when GetReference finds nothing; it returns, and
\* changes nothing, when there is a descriptor, be it the same or another.
ReferenceIsFreeOrSame(n, d) == TRUE  \* mutant: the old descriptor is ignored
ReferenceIsFree(n, d) == refs[n] = None

PutReference(p, n, d) ==
    /\ ReferenceIsFree(n, d)
    /\ BeginWrite(p, <<n, d>>)

EndWriteUnchecked(p) ==  \* mutant: an error of io.Copy or Encode is ignored
    /\ pc[p] = "writing"
    /\ \E content \in {Partial, target[p][2]} :
         temp' = [temp EXCEPT ![p] = content]
    /\ Goto(p, "written")
    /\ UNCHANGED <<disk, target>>
EndWrite(p) ==
    /\ pc[p] = "writing"
    /\ temp' = [temp EXCEPT ![p] = target[p][2]]
    /\ Goto(p, "written")
    /\ UNCHANGED <<disk, target>>

\* os.Rename of the temporary file to its place.
Rename(p) ==
    /\ pc[p] = "written"
    /\ IF target[p][1] = None
         THEN /\ blobs' = [blobs EXCEPT ![target[p][2]] = temp[p]]
              /\ UNCHANGED refs
         ELSE /\ refs' = [refs EXCEPT ![target[p][1]] = temp[p]]
              /\ UNCHANGED blobs
    /\ temp' = [temp EXCEPT ![p] = Empty]
    /\ target' = [target EXCEPT ![p] = NoTarget]
    /\ Goto(p, "open")
    /\ UNCHANGED <<dirs, layout>>

DeleteBlob(p, d) ==
    /\ pc[p] = "open"
    /\ blobs' = [blobs EXCEPT ![d] = None]
    /\ UNCHANGED <<dirs, layout, refs, temp, pc, target>>

DeleteReference(p, n) ==
    /\ pc[p] = "open"
    /\ refs' = [refs EXCEPT ![n] = None]
    /\ UNCHANGED <<dirs, layout, blobs, temp, pc, target>>

\* Close removes the request's own temporary directory.
CloseShared(p) ==  \* mutant: one temporary directory for all requests
    /\ pc[p] = "open"
    /\ temp' = [q \in Procs |-> None]
    /\ Goto(p, "closed")
    /\ UNCHANGED <<disk, target>>
Close(p) ==
    /\ pc[p] = "open"
    /\ temp' = [temp EXCEPT ![p] = None]
    /\ Goto(p, "closed")
    /\ UNCHANGED <<disk, target>>
-----------------------------------------------------------------------------
(* Failures *)

\* A file system call fails.  An opener gives up; a writer returns to its
\* caller, leaving its temporary file for Close.
Fail(p) ==
    /\ pc[p] \in Opening \cup {"writing", "written"}
    /\ Goto(p, IF pc[p] \in Opening THEN "closed" ELSE "open")
    /\ target' = [target EXCEPT ![p] = NoTarget]
    /\ UNCHANGED <<disk, temp>>

\* The daemon crashes: the temporary directories leak, under names no later
\* request uses.
Crash ==
    /\ pc' = [p \in Procs |-> "closed"]
    /\ temp' = [p \in Procs |-> None]
    /\ target' = [p \in Procs |-> NoTarget]
    /\ UNCHANGED disk

Step(p) ==
    \/ Open(p) \/ Mkdir(p) \/ MkdirExists(p) \/ CreateLayout(p) \/ MakeTemp(p)
    \/ \E d \in Blobs : PutBlob(p, d) \/ DeleteBlob(p, d)
    \/ \E n \in Names, d \in Blobs : PutReference(p, n, d)
    \/ \E n \in Names : DeleteReference(p, n)
    \/ EndWrite(p) \/ Rename(p) \/ Close(p) \/ Fail(p)

Next == (\E p \in Procs : Step(p)) \/ Crash

Spec == Init /\ [][Next]_vars
-----------------------------------------------------------------------------
(* Properties *)

\* The oci-layout file vouches for the directories: initialize trusts it and
\* skips their creation, so it must never appear before they do, whichever
\* opens overlap, fail or crash.
LayoutImpliesDirs == layout => dirs = Dir

\* A request that has the layout open finds the directories its renames go
\* to and its own temporary directory, whatever other requests close.
OpenIsUsable ==
    \A p \in Procs : pc[p] \in Using => dirs = Dir /\ temp[p] # None

\* Two requests never both build the layout: os.Mkdir of blobs elects one.
OneInitializer ==
    \A p, q \in Procs :
        pc[p] \in {"sha256", "refs", "layout"}
            /\ pc[q] \in {"sha256", "refs", "layout"} => p = q

\* A first open that died between its first directory and the oci-layout
\* file is final: from then on every open of the repository fails, in this
\* run of the daemon and after a restart.
HalfMade ==
    /\ dirs # {}
    /\ ~layout
    /\ \A p \in Procs : pc[p] \notin {"sha256", "refs", "layout"}
HalfMadeIsFinal == [][HalfMade => HalfMade']_vars

\* The layout implements the store of its interface: whole blobs, each under
\* its own digest, whole references, and a failed call or a crash that
\* changes nothing; for concurrent requests, without the promise of ErrClobber.
Store == INSTANCE LayoutStore
ImplementsWeakStore == Store!WeakSpec

\* For one request at a time it implements the documented store.  For more,
\* PutReference checks the name and renames over it in two steps.
ImplementsStore == Store!Spec
-----------------------------------------------------------------------------
(* The strengthening that makes them inductive *)

\* The directories of a stage of initialize are there.
StageHasDirs ==
    \A p \in Procs :
        /\ pc[p] = "sha256" => "blobs" \in dirs
        /\ pc[p] = "refs" => {"blobs", "sha256"} \subseteq dirs
        /\ pc[p] = "layout" => dirs = Dir
        /\ pc[p] \in {"temp"} \cup Using => layout

\* A stage's own directory is made by its initializer alone.
StageMakesDirs ==
    /\ \A p \in Procs :
         /\ pc[p] = "sha256" => dirs = {"blobs"}
         /\ pc[p] = "refs" => dirs = {"blobs", "sha256"}
         /\ pc[p] \in {"sha256", "refs", "layout"} => ~layout
    /\ "blobs" \notin dirs => dirs = {}

\* A request that writes knows what, and has it in its temporary file once
\* the file is written.
WriteHasTarget ==
    \A p \in Procs :
        /\ pc[p] \in {"writing", "written"} => target[p][2] \in Blobs
        /\ pc[p] = "written" => temp[p] = target[p][2]

\* Nothing partial is ever published.
PublishedIsWhole ==
    /\ \A d \in Blobs : blobs[d] \in {None, d}
    /\ \A n \in Names : refs[n] # Partial

IInv ==
    /\ TypeOK
    /\ LayoutImpliesDirs
    /\ OpenIsUsable
    /\ OneInitializer
    /\ StageHasDirs
    /\ StageMakesDirs
    /\ WriteHasTarget
    /\ PublishedIsWhole
=============================================================================
