---------------------------- MODULE MCAssetCache ----------------------------
(* AssetCache for TLC: symmetric renders and contents. *)
EXTENDS AssetCache, TLC

Interchangeable == Permutations(Renders) \cup Permutations(Contents)
=============================================================================
