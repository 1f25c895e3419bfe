---------------------------- MODULE MCCoinsView ----------------------------
(* Instances of CoinsView for TLC.                                          *)
(*  g0 - a1 - a2 - a3 - a4   a3 spends the last outputs of x1 and of t1,    *)
(*   |    |    |    +-- e4   and one of its own in t3, which has no output  *)
(*   |    |    |             that can be spent; a4 has the coinbase x1 of   *)
(*   |    |    +- c3         a1 again, now that it is spent; e4 spends x2,  *)
(*   |    +- b2 - d3         old enough for the rule before height 4 only;  *)
(*   +- f1                   c3 spends x1:0 a second time; b2 has a2's t1   *)
(*                           as well; d3 repeats b2's coinbase, still       *)
(*                           unspent; f1 breaks another rule                *)
EXTENDS CoinsView, TLC

CONSTANTS g0, a1, a2, a3, a4, b2, c3, d3, e4, f1, x1, x2, x3, y2, t1, t2, t3, t4, t5

MCBlocks == {g0, a1, a2, a3, a4, b2, c3, d3, e4, f1}
MCParent == a1 :> g0 @@ a2 :> a1 @@ a3 :> a2 @@ a4 :> a3 @@ b2 :> a1 @@ c3 :> a2
            @@ d3 :> b2 @@ e4 :> a3 @@ f1 :> g0
MCHeight ==
    LET h[b \in MCBlocks] == IF b = g0 THEN 0 ELSE h[MCParent[b]] + 1 IN h

MCTxs == {x1, x2, x3, y2, t1, t2, t3, t4, t5}
MCCoinbases == {x1, x2, x3, y2}
MCvin == [c \in MCCoinbases |-> <<>>] @@ t1 :> <<<<x1, 0>>>>
         @@ t2 :> <<<<t1, 0>>, <<x1, 1>>>> @@ t3 :> <<<<t2, 0>>>> @@ t4 :> <<<<x1, 0>>>>
         @@ t5 :> <<<<x2, 0>>>>
MCvout == x1 :> {0, 1} @@ t2 :> {0, 1} @@ t3 :> {} @@ t4 :> {} @@ t5 :> {}
          @@ [c \in MCTxs |-> {0}]
MCvtx == g0 :> <<>> @@ a1 :> <<x1>> @@ a2 :> <<x2, t1>> @@ a3 :> <<x3, t2, t3>>
         @@ a4 :> <<x1>> @@ b2 :> <<y2, t1>> @@ c3 :> <<x3, t4>> @@ d3 :> <<y2>>
         @@ e4 :> <<x1, t5>> @@ f1 :> <<x1>>

(* The coins of every chain, block by block and transaction by transaction. *)
MCUtxo ==
    LET SpentBy(c, q) == [r \in MCTxs |->
            Coin({n \in c[r].outs : \A m \in 1 .. Len(MCvin[q]) : MCvin[q][m] # <<r, n>>},
                 c[r].nHeight)]
        Apply(c, q, h) == [SpentBy(c, q) EXCEPT ![q] = Coin(MCvout[q], h)]
        Block(c, txs, h) ==
            LET r[i \in 0 .. Len(txs)] == IF i = 0 THEN c ELSE Apply(r[i - 1], txs[i], h)
            IN  r[Len(txs)]
        coinsAt[b \in MCBlocks] ==
            IF b = g0 THEN [q \in MCTxs |-> Pruned]
            ELSE Block(coinsAt[MCParent[b]], MCvtx[b], MCHeight[b])
    IN  coinsAt

=============================================================================
