--------------------------- MODULE MCCheckpoints ---------------------------
(* Instances of Checkpoints for TLC.                                        *)
EXTENDS Checkpoints, MCChainActivation

CONSTANTS a4, c4

(* The tree, for MaxReorgDepth = 1 and ROLLING_DEPTH = 3: the chain a1 a2   *)
(* a3 a4 locks a1 in.  Off it                                               *)
(*   b1 from g, b2, b3: the most work, and deeper than the gate allows once *)
(*      a2 is there;                                                        *)
(*   c4 from a3: more work than a4, one deep, and damaged on disk.          *)
LockParent == (a1 :> g) @@ (a2 :> a1) @@ (a3 :> a2) @@ (a4 :> a3) @@ (b1 :> g) @@ (b2 :> b1) @@ (b3 :> b2)
              @@ (c4 :> a3)
LockBlocks == {g, a1, a2, a3, a4, b1, b2, b3, c4}
LockHeight == HeightOf(LockParent)
LockChain == ChainOf(LockParent)
LockWork == WorkOf(LockParent,
    [b \in LockBlocks |-> CASE b = b1 -> 3 [] b = b3 -> 8 [] b = c4 -> 3 [] OTHER -> 2])
LockOrder == <<g, a1, a2, a3, a4, b1, b2, b3, c4>>
LockAddrs == {[b \in LockBlocks |-> CHOOSE i \in 1 .. Len(LockOrder) : LockOrder[i] = b]}

=============================================================================
