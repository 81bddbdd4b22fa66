----------------------------- MODULE MCBtEngine -----------------------------
(* Small instances of BtEngine for TLC. *)
EXTENDS BtEngine, TLC

\* Objects and calls are interchangeable in the safety properties.
Symmetry == Permutations(Handles) \cup Permutations(Calls)
=============================================================================
