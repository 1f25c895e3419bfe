------------------------------ MODULE BlockTxs ------------------------------
(* The blocks and transactions the coins modules work on, and what the      *)
(* chain of a block leaves unspent: the reference that the layers of        *)
(* src/coins.cpp are held against, and the rules a block has to keep        *)
(* (CheckInputs and ConnectBlock of src/main.cpp).                          *)
EXTENDS Integers, Sequences, FiniteSets

CONSTANTS
    Blocks,         \* the blocks that can be connected
    Genesis,        \* the genesis block, whose coinbase is not in the view
    Parent,         \* hashPrevBlock, for every block but Genesis
    Height,         \* nHeight
    BadBlocks,      \* blocks that break a rule that is not about the view
    Txs,            \* transaction ids
    Coinbases,      \* those of coinbase transactions
    vin,            \* the outputs a transaction spends, as <<txid, n>>
    vout,           \* the numbers of its spendable outputs
    vtx,            \* the transactions of a block
    COINBASE_MATURITY_LEGACY,
    COINBASE_MATURITY_HARDENED,
    HARDFORK_COINBASE_MAT, \* the height from which the hardened value applies
    Utxo            \* the coins a chain leaves, for the block it ends in

(* A CCoins after Cleanup().  Spent ones are all equal (operator==); fCoinBase and nVersion *)
(* go with nHeight.                                                         *)
Pruned == [outs |-> {}, nHeight |-> 0]
Coin(outs, h) == IF outs = {} THEN Pruned ELSE [outs |-> outs, nHeight |-> h]
Coins == {Pruned} \cup [outs : (SUBSET Nat) \ {{}}, nHeight : Nat \ {0}]

(* What the transactions before i, and the first j inputs of i, spend of t. *)
Spent(b, i, j, t) ==
    {n \in vout[t] : \E k \in 1 .. Len(vtx[b]) : \E m \in 1 .. Len(vin[vtx[b][k]]) :
                        /\ k < i \/ (k = i /\ m <= j)
                        /\ vin[vtx[b][k]][m] = <<t, n>>}

Created(b, i) == {vtx[b][k] : k \in 1 .. i - 1} \cap {vtx[b][k] : k \in 1 .. Len(vtx[b])}

(* The coins at <<i, j>> in block b, from what the parent's chain left.    *)
PartialUtxo(b, i, j) ==
    [t \in Txs |->
        IF t \in Created(b, i)
        THEN Coin(vout[t] \ Spent(b, i, j, t), Height[b])
        ELSE Coin(Utxo[Parent[b]][t].outs \ Spent(b, i, j, t), Utxo[Parent[b]][t].nHeight)]

(* Mutant: the hardened maturity never applies. *)
MaturityLegacy(h) == COINBASE_MATURITY_LEGACY

GetCoinbaseMaturity(h) ==
    IF h >= HARDFORK_COINBASE_MAT THEN COINBASE_MATURITY_HARDENED
                                  ELSE COINBASE_MATURITY_LEGACY

(* The inputs of transaction t are there to be spent in coins u, and old   *)
(* enough, for a block at height h.                                        *)
InputsOK(t, u, h) ==
    \A m \in 1 .. Len(vin[t]) :
        LET c == u[vin[t][m][1]] IN
        /\ vin[t][m][2] \in c.outs
        /\ vin[t][m][1] \in Coinbases => h - c.nHeight >= GetCoinbaseMaturity(h)

(* The rules a block has to keep, on top of a parent that keeps them.      *)
Valid(b) ==
    /\ b \notin BadBlocks
    /\ \A i \in 1 .. Len(vtx[b]) :
          /\ Utxo[Parent[b]][vtx[b][i]] = Pruned
          /\ InputsOK(vtx[b][i], PartialUtxo(b, i, 0), Height[b])

ASSUME TreeAssumption ==
    /\ Genesis \in Blocks
    /\ Parent \in [Blocks \ {Genesis} -> Blocks]
    /\ Height \in [Blocks -> Nat]
    /\ \A b \in Blocks \ {Genesis} : Height[b] = Height[Parent[b]] + 1
    /\ BadBlocks \subseteq Blocks

(* What CheckBlock and CheckTransaction leave: no transaction twice in a   *)
(* block, no output twice in a transaction, a coinbase first and only      *)
(* there, and it spends nothing.                                           *)
ASSUME TxAssumption ==
    /\ Coinbases \subseteq Txs
    /\ vin \in [Txs -> Seq(Txs \X Nat)]
    /\ vout \in [Txs -> SUBSET Nat]
    /\ vtx \in [Blocks -> Seq(Txs)]
    /\ \A t \in Txs : /\ vin[t] = <<>> <=> t \in Coinbases
                      /\ \A m, n \in 1 .. Len(vin[t]) : vin[t][m] = vin[t][n] => m = n
    /\ \A b \in Blocks \ {Genesis} :
          /\ vtx[b] # <<>>
          /\ \A i, k \in 1 .. Len(vtx[b]) : vtx[b][i] = vtx[b][k] => i = k
          /\ \A i \in 1 .. Len(vtx[b]) : vtx[b][i] \in Coinbases <=> i = 1

(* The coins a chain leaves follow from its blocks, oldest first.          *)
ASSUME UtxoAssumption ==
    /\ Utxo \in [Blocks -> [Txs -> Coins]]
    /\ \A t \in Txs : Utxo[Genesis][t] = Pruned
    /\ \A b \in Blocks, t \in Txs : Utxo[b][t].outs \subseteq vout[t]
    /\ \A b \in Blocks \ {Genesis} :
          Valid(b) => Utxo[b] = PartialUtxo(b, Len(vtx[b]) + 1, 0)

ASSUME MaturityAssumption ==
    /\ COINBASE_MATURITY_LEGACY \in Nat /\ COINBASE_MATURITY_HARDENED \in Nat
    /\ HARDFORK_COINBASE_MAT \in Nat

=============================================================================
