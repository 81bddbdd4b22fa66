------------------------------ MODULE ImageStore ------------------------------
(***************************************************************************)
(* What a daemon promises to those who ask it for images, whatever requests *)
(* overlap, fail, are stopped or die: what its layouts hold they keep; the *)
(* reference of an image appears when all of it is there; a StartDownload  *)
(* that reports success has published the image, or, on a seeder, which    *)
(* publishes none, stored its layers.                                      *)
(***************************************************************************)

CONSTANTS
    Images,     \* images
    Name,       \* the repository and the tag of an image
    LayersOf,   \* the layer blobs of an image, each in the image's layout
    DocsOf,     \* its config and its manifest
    Publishes,  \* whether StartDownload writes a reference
    None        \* no reference

VARIABLES
    held,  \* the blobs that are in the layouts
    refs,  \* the image that a name stands for
    done   \* images that were reported to be there

vars == <<held, refs, done>>

Blobs == UNION {LayersOf[i] \cup DocsOf[i] : i \in Images}

Init ==
    /\ held = {}
    /\ refs = [n \in {Name[i] : i \in Images} |-> None]
    /\ done = {}

Store(b) == held' = held \cup {b} /\ UNCHANGED <<refs, done>>

\* The last writer of a name wins.
Publish(i) ==
    /\ Publishes
    /\ LayersOf[i] \cup DocsOf[i] \subseteq held
    /\ refs' = [refs EXCEPT ![Name[i]] = i]
    /\ done' = done \cup {i}
    /\ UNCHANGED held

Report(i) ==
    /\ ~Publishes
    /\ LayersOf[i] \subseteq held
    /\ done' = done \cup {i}
    /\ UNCHANGED <<held, refs>>

Next ==
    \/ \E b \in Blobs : Store(b)
    \/ \E i \in Images : Publish(i) \/ Report(i)

Spec == Init /\ [][Next]_vars
=============================================================================
