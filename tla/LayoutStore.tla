----------------------------- MODULE LayoutStore ------------------------------
(***************************************************************************)
(* What the Layout interface of src/oci/layout.go promises its callers: a  *)
(* table of blobs by digest and one of named references, each changed in   *)
(* one step, whole or not at all, a crash changing neither.                *)
(***************************************************************************)
CONSTANTS
    Blobs,  \* contents; a digest, and a descriptor of it, stand for theirs
    Names,  \* reference names
    None    \* no blob, no reference

VARIABLES
    blobs,  \* the content stored at each digest
    refs    \* the descriptor stored at each name

vars == <<blobs, refs>>

Init ==
    /\ blobs = [d \in Blobs |-> None]
    /\ refs = [n \in Names |-> None]

\* "The content is stored at DIGEST."
PutBlob(d) == blobs' = [blobs EXCEPT ![d] = d] /\ UNCHANGED refs

DeleteBlob(d) == blobs' = [blobs EXCEPT ![d] = None] /\ UNCHANGED refs

\* "ErrClobber is returned if there is already a descriptor stored at NAME,
\* but does not match the descriptor requested to be stored."
PutReference(n, d) ==
    /\ refs[n] \in {None, d}
    /\ refs' = [refs EXCEPT ![n] = d]
    /\ UNCHANGED blobs

\* The same call without that promise: the last writer wins.
OverwriteReference(n, d) ==
    refs' = [refs EXCEPT ![n] = d] /\ UNCHANGED blobs

DeleteReference(n) ==
    refs' = [refs EXCEPT ![n] = None] /\ UNCHANGED blobs

Next ==
    \/ \E d \in Blobs : PutBlob(d) \/ DeleteBlob(d)
    \/ \E n \in Names, d \in Blobs : PutReference(n, d)
    \/ \E n \in Names : DeleteReference(n)

WeakNext == Next \/ \E n \in Names, d \in Blobs : OverwriteReference(n, d)

\* The documented store, and the one concurrent callers get.
Spec == Init /\ [][Next]_vars
WeakSpec == Init /\ [][WeakNext]_vars
=============================================================================
