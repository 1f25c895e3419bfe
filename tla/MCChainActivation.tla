------------------------- MODULE MCChainActivation -------------------------
(* Instances of ChainActivation for TLC: block trees given by parent and    *)
(* per-block work, from which the other constants follow.                   *)
EXTENDS ChainActivation, TLC

CONSTANTS g, a1, a2, a3, b1, b2, b3, c2, c3

(* Heights, chains and accumulated work of a tree of parents p with block   *)
(* work w, rooted at g.                                                     *)
HeightOf(p) ==
    LET h[b \in DOMAIN p \cup {g}] == IF b = g THEN 0 ELSE h[p[b]] + 1 IN h
ChainOf(p) ==
    LET c[b \in DOMAIN p \cup {g}] == IF b = g THEN {g} ELSE c[p[b]] \cup {b} IN c
WorkOf(p, w) ==
    LET s[b \in DOMAIN p \cup {g}] == IF b = g THEN 1 ELSE s[p[b]] + w[b] IN s

(* Two orders in which a restart may lay out equal blocks in memory.        *)
Listed == <<g, a1, a2, a3, b1, b2, b3, c2, c3>>
Up(S) == [x \in S |-> CHOOSE i \in 1 .. Len(Listed) : Listed[i] = x]
Down(S) == [x \in S |-> Len(Listed) - Up(S)[x]]

(* The fork tree: a fork of equal work from genesis that a child makes      *)
(* heavier, and an invalid branch with a descendant, heavier still.         *)
(*     g - a1 - a2 - a3     a3 is damaged on disk                           *)
(*       - b1 - b2 - b3     siblings of a1, a2, a3, equal work              *)
(*            - c2 - c3     c2 invalid, c3 the most work of all             *)
ForkParent == (a1 :> g) @@ (a2 :> a1) @@ (a3 :> a2) @@ (b1 :> g) @@ (b2 :> b1)
              @@ (b3 :> b2) @@ (c2 :> b1) @@ (c3 :> c2)
ForkBlocks == {g, a1, a2, a3, b1, b2, b3, c2, c3}
ForkHeight == HeightOf(ForkParent)
ForkChain == ChainOf(ForkParent)
ForkWork == WorkOf(ForkParent, [b \in ForkBlocks |-> IF b = c3 THEN 3 ELSE 1])
ForkAddrs == {Up(ForkBlocks), Down(ForkBlocks)}

(* The fork tree cut down to six blocks, for the runs that also explore     *)
(* temporal properties or disk errors.                                      *)
SmallParent == (a1 :> g) @@ (a2 :> a1) @@ (b1 :> g) @@ (c2 :> b1) @@ (c3 :> c2)
SmallBlocks == {g, a1, a2, b1, c2, c3}
SmallHeight == HeightOf(SmallParent)
SmallChain == ChainOf(SmallParent)
SmallWork == WorkOf(SmallParent, [b \in SmallBlocks |-> IF b = c3 THEN 3 ELSE 1])
SmallAddrs == {Up(SmallBlocks), Down(SmallBlocks)}

(* The gate tree, for MaxReorgDepth = 1.  Off the chain a1 a2 a3 branch     *)
(*   b1 from a1, b2 from g: more work than a3, deeper than the gate allows; *)
(*   c2 from a2: within the gate, and the most work of all.                 *)
GateParent == (a1 :> g) @@ (a2 :> a1) @@ (a3 :> a2) @@ (b1 :> a1) @@ (b2 :> g)
              @@ (c2 :> a2)
GateBlocks == {g, a1, a2, a3, b1, b2, c2}
GateHeight == HeightOf(GateParent)
GateChain == ChainOf(GateParent)
GateWork == WorkOf(GateParent,
    [b \in GateBlocks |-> CASE b = b1 -> 4 [] b = b2 -> 7 [] b = c2 -> 9
                            [] OTHER -> 1])
GateAddrs == {Up(GateBlocks)}

=============================================================================
