------------------------------ MODULE MCDaemon -------------------------------
(* Small instances of Daemon for TLC. *)
EXTENDS Daemon, TLC

CONSTANTS l1, l2, a, b, r1, r2, v1, v2

\* One layer for every image; or a layer of its own for a, then a shared one.
OneLayer == [i \in Images |-> <<l1>>]
SharedLayer == a :> <<l1, l2>> @@ b :> <<l2>>

\* Images of two repositories; of one, with two tags; or one tag that moved.
TwoRepos == a :> <<r1, v1>> @@ b :> <<r2, v1>>
TwoTags == a :> <<r1, v1>> @@ b :> <<r1, v2>>
OneName == [i \in Images |-> <<r1, v1>>]

\* What the seeder of a leecher has: the torrent of the layer, or of half of it
\* too, after a change of seeders.
WholeOffer == [id \in Ids |-> {Whole}]
MixedOffer == [id \in Ids |-> {Whole, Prefix}]

CallSymmetry == Permutations(Calls)
=============================================================================
