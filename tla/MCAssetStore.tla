---------------------------- MODULE MCAssetStore -----------------------------
(* AssetStore for TLC.                                                     *)
EXTENDS AssetStore, TLC

NodesSymmetry == Permutations(Nodes)
=============================================================================
