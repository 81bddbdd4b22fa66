---------------------------- MODULE MCOciLayout -----------------------------
(* Small instances of OciLayout for TLC. *)
EXTENDS OciLayout, TLC

\* Requests, and the contents they put, are interchangeable.
Symmetry == Permutations(Procs) \cup Permutations(Blobs)
=============================================================================
