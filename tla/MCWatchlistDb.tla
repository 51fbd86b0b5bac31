---------------------------- MODULE MCWatchlistDb ----------------------------
(* Instances of WatchlistDb for TLC. *)
EXTENDS WatchlistDb, TLC

(* An injective hash: the content under a tag. *)
MCHash(wl) == <<"hash", wl>>

Symmetry == Permutations(Editors) \cup Permutations(Keys) \cup Permutations(Diffs)

==============================================================================
