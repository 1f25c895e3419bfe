-------------------------- MODULE MCBlockDownload --------------------------
(* BlockDownload for TLC: blocks are interchangeable, and so are peers.     *)
EXTENDS BlockDownload

Symmetric == Permutations(Blocks) \cup Permutations(Peers)
=============================================================================
