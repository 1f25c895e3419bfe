----------------------------- MODULE MCMemPool -----------------------------
(* Instances of MemPool for TLC.                                            *)
(*  g0 - a1 - a2 - a3 - a4   a3 has t1 and t2, c3 their competitor t4, a4   *)
(*        |    +- c3         the non-standard t3; b2 replaces a2            *)
(*        +- b2                                                             *)
(*   x1:0 <- t1 <- t2 <- t6  t6 spends t2 and t5: two parents               *)
(*    |      +- t3           t4 spends x1:0 as t1 does                      *)
(*   x1:1 <- t5 <- t6                                                       *)
EXTENDS MemPool, TLC

CONSTANTS g0, a1, a2, a3, a4, b2, c3, x1, x2, x3, x4, t1, t2, t3, t4, t5, t6

MCBlocks == {g0, a1, a2, a3, a4, b2, c3}
MCParent == a1 :> g0 @@ a2 :> a1 @@ a3 :> a2 @@ a4 :> a3 @@ b2 :> a1 @@ c3 :> a2
MCHeight ==
    LET h[b \in MCBlocks] == IF b = g0 THEN 0 ELSE h[MCParent[b]] + 1 IN h

MCTxs == {x1, x2, x3, x4, t1, t2, t3, t4, t5, t6}
MCCoinbases == {x1, x2, x3, x4}
MCvin == [c \in MCCoinbases |-> <<>>] @@ t1 :> <<<<x1, 0>>>> @@ t2 :> <<<<t1, 0>>>>
         @@ t3 :> <<<<t1, 1>>>> @@ t4 :> <<<<x1, 0>>>> @@ t5 :> <<<<x1, 1>>>>
         @@ t6 :> <<<<t2, 0>>, <<t5, 0>>>>
MCvout == [c \in {x1, t1} |-> {0, 1}] @@ [c \in MCTxs |-> {0}]
MCvtx == g0 :> <<>> @@ a1 :> <<x1>> @@ a2 :> <<x2>> @@ a3 :> <<x3, t1, t2>> @@ a4 :> <<x4, t3>>
         @@ b2 :> <<x2>> @@ c3 :> <<x3, t4>>

(* The coins of every chain, block by block and transaction by transaction. *)
MCUtxo ==
    LET SpendBy(c, s) == [r \in MCTxs |->
            Coin({k \in c[r].outs : \A m \in 1 .. Len(MCvin[s]) : MCvin[s][m] # <<r, k>>},
                 c[r].nHeight)]
        Apply(c, s, h) == [SpendBy(c, s) EXCEPT ![s] = Coin(MCvout[s], h)]
        Block(c, txs, h) ==
            LET r[i \in 0 .. Len(txs)] == IF i = 0 THEN c ELSE Apply(r[i - 1], txs[i], h)
            IN  r[Len(txs)]
        coinsAt[b \in MCBlocks] ==
            IF b = g0 THEN [s \in MCTxs |-> Pruned]
            ELSE Block(coinsAt[MCParent[b]], MCvtx[b], MCHeight[b])
    IN  coinsAt

=============================================================================
