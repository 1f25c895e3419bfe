--------------------------- MODULE CoinsViewProofs ---------------------------
(* The layers of the coins view implement the ledger, for every tree of     *)
(* blocks and every set of transactions.                                    *)
EXTENDS CoinsView, TLAPS

-----------------------------------------------------------------------------
(* Coins.                                                                   *)

LEMMA CoinInCoins ==
    ASSUME NEW S \in SUBSET Nat, NEW h \in Nat \ {0}
    PROVE  Coin(S, h) \in Coins
BY DEF Coin, Coins

LEMMA CoinFields ==
    ASSUME NEW c \in Coins
    PROVE  /\ c.outs \in SUBSET Nat /\ c.nHeight \in Nat
           /\ c.outs = {} <=> c = Pruned
           /\ c # Pruned => c.nHeight # 0
           /\ Coin(c.outs, c.nHeight) = c
BY DEF Coins, Coin, Pruned

LEMMA CoinParts ==
    ASSUME NEW S, NEW h
    PROVE  /\ Coin(S, h).outs = S
           /\ Coin(S, h).nHeight = IF S = {} THEN 0 ELSE h
           /\ Coin(S, h) = Pruned <=> S = {}
BY DEF Coin, Pruned

LEMMA SpendCoin ==
    ASSUME NEW S, NEW h, NEW n
    PROVE  Spend(Coin(S, h), n) = Coin(S \ {n}, h)
<1>1. CASE S = {}
  BY <1>1 DEF Spend, Coin, Pruned
<1>2. CASE S # {}
  BY <1>2 DEF Spend, Coin
<1> QED
  BY <1>1, <1>2

(* A restored output undoes the spending of it.                             *)
LEMMA RestoreCoin ==
    ASSUME NEW S, NEW h, h # 0, NEW n \in S
    PROVE  /\ Restored(Coin(S \ {n}, h), n, SpentHeight(Coin(S, h), n)) = Coin(S, h)
           /\ SpentHeight(Coin(S, h), n) # 0 <=> Coin(S \ {n}, h) = Pruned
           /\ n \notin Coin(S \ {n}, h).outs
<1>1. S # {} /\ Coin(S, h) = [outs |-> S, nHeight |-> h]
  BY DEF Coin
<1>2. CASE S \ {n} = {}
  <2>1. S = {n} /\ Coin(S \ {n}, h) = Pruned /\ SpentHeight(Coin(S, h), n) = h
    BY <1>1, <1>2 DEF Coin, SpentHeight
  <2> QED
    BY <1>1, <2>1 DEF Restored, Pruned, Coin
<1>3. CASE S \ {n} # {}
  <2>1. Coin(S \ {n}, h) = [outs |-> S \ {n}, nHeight |-> h] /\ SpentHeight(Coin(S, h), n) = 0
    BY <1>1, <1>3 DEF Coin, SpentHeight
  <2>2. (S \ {n}) \cup {n} = S
    OBVIOUS
  <2>3. Coin(S \ {n}, h) # Pruned
    BY <1>3, <2>1 DEF Pruned
  <2> QED
    BY <1>1, <2>1, <2>2, <2>3 DEF Restored
<1> QED
  BY <1>2, <1>3

-----------------------------------------------------------------------------
(* Blocks and their transactions.                                           *)

LEMMA BlockFacts ==
    ASSUME NEW b \in Blocks \ {Genesis}
    PROVE  /\ Parent[b] \in Blocks
           /\ Height[b] \in Nat \ {0} /\ Height[b] = Height[Parent[b]] + 1
           /\ Len(vtx[b]) \in Nat /\ Len(vtx[b]) > 0
           /\ Utxo[Parent[b]] \in [Txs -> Coins]
<1>1. Parent[b] \in Blocks
  BY TreeAssumption
<1>2. Height[b] \in Nat \ {0} /\ Height[b] = Height[Parent[b]] + 1
  BY <1>1, TreeAssumption
<1>3. vtx[b] \in Seq(Txs) /\ vtx[b] # <<>>
  BY TxAssumption
<1>4. Len(vtx[b]) \in Nat /\ Len(vtx[b]) > 0
  BY <1>3
<1>5. Utxo[Parent[b]] \in [Txs -> Coins]
  BY <1>1, UtxoAssumption
<1> QED
  BY <1>1, <1>2, <1>4, <1>5

LEMMA TxFacts ==
    ASSUME NEW b \in Blocks, NEW i \in 1 .. Len(vtx[b])
    PROVE  /\ vtx[b][i] \in Txs
           /\ Len(vin[vtx[b][i]]) \in Nat
           /\ \A m \in 1 .. Len(vin[vtx[b][i]]) :
                 /\ vin[vtx[b][i]][m][1] \in Txs /\ vin[vtx[b][i]][m][2] \in Nat
                 /\ vin[vtx[b][i]][m] = <<vin[vtx[b][i]][m][1], vin[vtx[b][i]][m][2]>>
<1>1. vtx[b] \in Seq(Txs)
  BY TxAssumption
<1>2. vtx[b][i] \in Txs
  BY <1>1
<1>3. PICK s \in Seq(Txs \X Nat) : s = vin[vtx[b][i]]
  BY <1>2, TxAssumption
<1>4. Len(s) \in Nat /\ \A m \in 1 .. Len(s) : s[m] \in Txs \X Nat
  BY <1>3
<1>5. \A o \in Txs \X Nat : o[1] \in Txs /\ o[2] \in Nat /\ o = <<o[1], o[2]>>
  OBVIOUS
<1>6. \A m \in 1 .. Len(s) : s[m][1] \in Txs /\ s[m][2] \in Nat /\ s[m] = <<s[m][1], s[m][2]>>
  BY <1>4, <1>5
<1> QED
  BY <1>2, <1>3, <1>4, <1>6

LEMMA NextInput ==
    ASSUME NEW b \in Blocks, NEW i \in 1 .. Len(vtx[b]), NEW j \in Nat, j < Len(vin[vtx[b][i]]),
           NEW o, o = vin[vtx[b][i]][j + 1]
    PROVE  /\ o[1] \in Txs /\ o[2] \in Nat /\ o = <<o[1], o[2]>>
           /\ j + 1 \in 1 .. Len(vin[vtx[b][i]])
           /\ \A x, y : o = <<x, y>> <=> x = o[1] /\ y = o[2]
<1>1. Len(vin[vtx[b][i]]) \in Nat
  BY TxFacts
<1>2. j + 1 \in 1 .. Len(vin[vtx[b][i]])
  BY <1>1
<1>3. o[1] \in Txs /\ o[2] \in Nat /\ o = <<o[1], o[2]>>
  BY <1>2, TxFacts
<1>4. \A x, y : <<x, y>> = <<o[1], o[2]>> <=> x = o[1] /\ y = o[2]
  OBVIOUS
<1> QED
  BY <1>2, <1>3, <1>4

LEMMA DistinctTxs ==
    ASSUME NEW b \in Blocks \ {Genesis}, NEW i \in 1 .. Len(vtx[b]), NEW k \in 1 .. Len(vtx[b]),
           vtx[b][i] = vtx[b][k]
    PROVE  i = k
BY TxAssumption

LEMMA VoutType == \A t \in Txs : vout[t] \in SUBSET Nat
BY TxAssumption

(* How far a block is applied, without the sequences.                       *)
LEMMA SpentType ==
    ASSUME NEW b \in Blocks, NEW i, NEW j, NEW t \in Txs
    PROVE  Spent(b, i, j, t) \subseteq vout[t]
BY DEF Spent

LEMMA SpentStart ==
    ASSUME NEW b \in Blocks, NEW t \in Txs
    PROVE  Spent(b, 1, 0, t) = {}
BY DEF Spent

LEMMA SpentStep ==
    ASSUME NEW b \in Blocks, NEW i \in 1 .. Len(vtx[b]), NEW j \in Nat, j < Len(vin[vtx[b][i]]),
           NEW t \in Txs
    PROVE  LET o == vin[vtx[b][i]][j + 1] IN
           Spent(b, i, j + 1, t) =
               IF t = o[1] THEN Spent(b, i, j, t) \cup ({o[2]} \cap vout[t]) ELSE Spent(b, i, j, t)
<1> DEFINE s == vin[vtx[b][i]]
           o == s[j + 1]
<1>1. Len(s) \in Nat /\ j + 1 \in 1 .. Len(s) /\ \A x, y : o = <<x, y>> <=> x = o[1] /\ y = o[2]
  <2>1. Len(s) \in Nat
    BY TxFacts
  <2>2. PICK q : q = vin[vtx[b][i]][j + 1]
    OBVIOUS
  <2>3. j + 1 \in 1 .. Len(s) /\ \A x, y : q = <<x, y>> <=> x = q[1] /\ y = q[2]
    BY <2>2, NextInput
  <2> QED
    BY <2>1, <2>2, <2>3
<1>2. ASSUME NEW n \in vout[t]
      PROVE  n \in Spent(b, i, j + 1, t) <=> n \in Spent(b, i, j, t) \/ o = <<t, n>>
  <2>1. \A k \in 1 .. Len(vtx[b]) : \A m \in 1 .. Len(vin[vtx[b][k]]) :
            (k = i /\ m <= j + 1) <=> (k = i /\ m <= j) \/ (k = i /\ m = j + 1)
    <3>1. \A k \in 1 .. Len(vtx[b]) : Len(vin[vtx[b][k]]) \in Nat
      BY TxFacts
    <3> QED
      BY <3>1
  <2> QED
    BY <1>1, <1>2, <2>1 DEF Spent
<1>3. ASSUME NEW n PROVE o = <<t, n>> <=> t = o[1] /\ n = o[2]
  BY <1>1
<1> QED
  BY <1>2, <1>3, SpentType

LEMMA SpentNext ==
    ASSUME NEW b \in Blocks, NEW i \in 1 .. Len(vtx[b]), NEW t \in Txs
    PROVE  Spent(b, i + 1, 0, t) = Spent(b, i, Len(vin[vtx[b][i]]), t)
<1>1. \A k \in 1 .. Len(vtx[b]) : Len(vin[vtx[b][k]]) \in Nat
  BY TxFacts
<1>2. \A k \in 1 .. Len(vtx[b]) : \A m \in 1 .. Len(vin[vtx[b][k]]) :
          (k < i + 1 \/ (k = i + 1 /\ m <= 0)) <=> (k < i \/ (k = i /\ m <= Len(vin[vtx[b][i]])))
  BY <1>1
<1> QED
  BY <1>2 DEF Spent

LEMMA CreatedFacts ==
    ASSUME NEW b \in Blocks \ {Genesis}, NEW i \in 1 .. Len(vtx[b])
    PROVE  /\ Created(b, 1) = {}
           /\ Created(b, i + 1) = Created(b, i) \cup {vtx[b][i]}
           /\ vtx[b][i] \notin Created(b, i)
           /\ \A k \in 1 .. i : vtx[b][i] \notin Created(b, k)
<1>1. Len(vtx[b]) \in Nat /\ i \in Nat
  BY BlockFacts
<1>2. \A k \in 1 .. Len(vtx[b]) : Created(b, k) = {vtx[b][m] : m \in 1 .. k - 1}
  BY <1>1 DEF Created
<1>3. Created(b, i + 1) = {vtx[b][m] : m \in 1 .. i}
  BY <1>1 DEF Created
<1>4. \A m \in 1 .. i : m \in 1 .. i - 1 \/ m = i
  BY <1>1
<1>5. Created(b, i + 1) = Created(b, i) \cup {vtx[b][i]}
  BY <1>1, <1>2, <1>3, <1>4
<1>6. \A k \in 1 .. i : vtx[b][i] \notin Created(b, k)
  <2> SUFFICES ASSUME NEW k \in 1 .. i, vtx[b][i] \in Created(b, k) PROVE FALSE
    OBVIOUS
  <2>1. PICK m \in 1 .. k - 1 : vtx[b][m] = vtx[b][i]
    BY <1>1, <1>2
  <2>2. m \in 1 .. Len(vtx[b]) /\ m # i
    BY <1>1, <2>1
  <2> QED
    BY <2>1, <2>2, DistinctTxs
<1>7. Created(b, 1) = {}
  BY <1>1 DEF Created
<1> QED
  BY <1>1, <1>5, <1>6, <1>7

-----------------------------------------------------------------------------
(* The coins of a partly applied block.                                     *)

Base(b, i, t) == IF t \in Created(b, i) THEN vout[t] ELSE Utxo[Parent[b]][t].outs
BaseHeight(b, i, t) == IF t \in Created(b, i) THEN Height[b] ELSE Utxo[Parent[b]][t].nHeight

LEMMA BaseFacts ==
    ASSUME NEW b \in Blocks \ {Genesis}, NEW i, NEW t \in Txs
    PROVE  /\ Base(b, i, t) \subseteq vout[t] /\ Base(b, i, t) \in SUBSET Nat
           /\ BaseHeight(b, i, t) \in Nat
           /\ Base(b, i, t) # {} => BaseHeight(b, i, t) # 0
<1>1. Parent[b] \in Blocks /\ Utxo[Parent[b]][t] \in Coins /\ Height[b] \in Nat \ {0}
  BY BlockFacts
<1>2. Utxo[Parent[b]][t].outs \subseteq vout[t]
  BY <1>1, UtxoAssumption
<1>3. vout[t] \in SUBSET Nat
  BY VoutType
<1> QED
  BY <1>1, <1>2, <1>3, CoinFields DEF Base, BaseHeight

LEMMA PartialIs ==
    ASSUME NEW b \in Blocks \ {Genesis}, NEW i, NEW j, NEW t \in Txs
    PROVE  /\ PartialUtxo(b, i, j)[t] = Coin(Base(b, i, t) \ Spent(b, i, j, t), BaseHeight(b, i, t))
           /\ PartialUtxo(b, i, j)[t] \in Coins
<1>1. PartialUtxo(b, i, j)[t] = Coin(Base(b, i, t) \ Spent(b, i, j, t), BaseHeight(b, i, t))
  BY DEF PartialUtxo, Base, BaseHeight
<1> DEFINE S == Base(b, i, t) \ Spent(b, i, j, t)
<1>2. CASE S = {}
  BY <1>1, <1>2 DEF Coin, Coins
<1>3. CASE S # {}
  <2>1. S \in SUBSET Nat /\ BaseHeight(b, i, t) \in Nat \ {0}
    BY <1>3, BaseFacts
  <2> QED
    BY <1>1, <2>1, CoinInCoins
<1> QED
  BY <1>1, <1>2, <1>3

LEMMA PartialType ==
    ASSUME NEW b \in Blocks \ {Genesis}, NEW i, NEW j
    PROVE  /\ DOMAIN PartialUtxo(b, i, j) = Txs
           /\ PartialUtxo(b, i, j) = [t \in Txs |-> PartialUtxo(b, i, j)[t]]
           /\ PartialUtxo(b, i, j) \in [Txs -> Coins]
<1>1. DOMAIN PartialUtxo(b, i, j) = Txs
      /\ PartialUtxo(b, i, j) = [t \in Txs |-> PartialUtxo(b, i, j)[t]]
  BY DEF PartialUtxo
<1> QED
  BY <1>1, PartialIs

(* Nothing is applied yet. *)
LEMMA PartialStart ==
    ASSUME NEW b \in Blocks \ {Genesis}
    PROVE  PartialUtxo(b, 1, 0) = Utxo[Parent[b]]
<1>1. Utxo[Parent[b]] \in [Txs -> Coins]
  BY BlockFacts
<1>2. ASSUME NEW t \in Txs PROVE PartialUtxo(b, 1, 0)[t] = Utxo[Parent[b]][t]
  <2>1. Created(b, 1) = {}
    <3>1. 1 \in 1 .. Len(vtx[b])
      BY BlockFacts
    <3> QED
      BY <3>1, CreatedFacts
  <2>2. Spent(b, 1, 0, t) = {}
    BY SpentStart
  <2>3. Coin(Utxo[Parent[b]][t].outs, Utxo[Parent[b]][t].nHeight) = Utxo[Parent[b]][t]
    BY <1>1, CoinFields
  <2> QED
    BY <2>1, <2>2, <2>3, PartialIs DEF Base, BaseHeight
<1> QED
  BY <1>1, <1>2, PartialType

(* UpdateCoins spends the input after j. *)
LEMMA PartialSpend ==
    ASSUME NEW b \in Blocks \ {Genesis}, NEW i \in 1 .. Len(vtx[b]), NEW j \in Nat,
           j < Len(vin[vtx[b][i]])
    PROVE  LET o == vin[vtx[b][i]][j + 1] IN
           /\ PartialUtxo(b, i, j + 1) =
                 [PartialUtxo(b, i, j) EXCEPT ![o[1]] = Spend(PartialUtxo(b, i, j)[o[1]], o[2])]
           /\ PartialUtxo(b, i, j + 1)[o[1]] =
                 Coin((Base(b, i, o[1]) \ Spent(b, i, j, o[1])) \ {o[2]}, BaseHeight(b, i, o[1]))
<1> DEFINE o == vin[vtx[b][i]][j + 1]
<1>1. o[1] \in Txs
  BY NextInput
<1>2. ASSUME NEW t \in Txs
      PROVE  PartialUtxo(b, i, j + 1)[t] =
                 IF t = o[1] THEN Coin((Base(b, i, t) \ Spent(b, i, j, t)) \ {o[2]}, BaseHeight(b, i, t))
                 ELSE PartialUtxo(b, i, j)[t]
  <2>1. Spent(b, i, j + 1, t) =
            IF t = o[1] THEN Spent(b, i, j, t) \cup ({o[2]} \cap vout[t]) ELSE Spent(b, i, j, t)
    BY SpentStep
  <2>2. Base(b, i, t) \subseteq vout[t]
    BY BaseFacts
  <2>3. t = o[1] => Base(b, i, t) \ Spent(b, i, j + 1, t) = (Base(b, i, t) \ Spent(b, i, j, t)) \ {o[2]}
    BY <2>1, <2>2
  <2> HIDE DEF o
  <2>4. /\ PartialUtxo(b, i, j + 1)[t] = Coin(Base(b, i, t) \ Spent(b, i, j + 1, t), BaseHeight(b, i, t))
        /\ PartialUtxo(b, i, j)[t] = Coin(Base(b, i, t) \ Spent(b, i, j, t), BaseHeight(b, i, t))
    BY PartialIs
  <2> QED
    BY <2>1, <2>3, <2>4
<1>3. Spend(PartialUtxo(b, i, j)[o[1]], o[2]) =
          Coin((Base(b, i, o[1]) \ Spent(b, i, j, o[1])) \ {o[2]}, BaseHeight(b, i, o[1]))
  <2> HIDE DEF o
  <2>1. PartialUtxo(b, i, j)[o[1]] = Coin(Base(b, i, o[1]) \ Spent(b, i, j, o[1]), BaseHeight(b, i, o[1]))
    BY <1>1, PartialIs
  <2> QED
    BY <2>1, SpendCoin
<1> HIDE DEF o
<1>4. /\ DOMAIN PartialUtxo(b, i, j) = Txs
      /\ PartialUtxo(b, i, j + 1) = [t \in Txs |-> PartialUtxo(b, i, j + 1)[t]]
      /\ PartialUtxo(b, i, j) = [t \in Txs |-> PartialUtxo(b, i, j)[t]]
  BY PartialType
<1>5. PartialUtxo(b, i, j + 1) =
          [PartialUtxo(b, i, j) EXCEPT ![o[1]] = Spend(PartialUtxo(b, i, j)[o[1]], o[2])]
  <2> DEFINE g == [PartialUtxo(b, i, j) EXCEPT ![o[1]] = Spend(PartialUtxo(b, i, j)[o[1]], o[2])]
  <2>1. g = [t \in Txs |-> g[t]]
    BY <1>4
  <2>2. \A t \in Txs : PartialUtxo(b, i, j + 1)[t] = g[t]
    BY <1>1, <1>2, <1>3, <1>4
  <2> HIDE DEF g
  <2>3. PartialUtxo(b, i, j + 1) = g
    BY <1>4, <2>1, <2>2
  <2> QED
    BY <2>3 DEF g
<1> QED
  BY <1>1, <1>2, <1>5 DEF o

-----------------------------------------------------------------------------
(* What ConnectBlock has checked of a block.                                *)

Fresh(b) == \A i \in 1 .. Len(vtx[b]) : Utxo[Parent[b]][vtx[b][i]] = Pruned
Checked(b, i) ==
    \A k \in 1 .. Len(vtx[b]) : k <= i => InputsOK(vtx[b][k], PartialUtxo(b, k, 0), Height[b])

LEMMA ValidMeans ==
    ASSUME NEW b \in Blocks \ {Genesis}
    PROVE  Valid(b) <=> b \notin BadBlocks /\ Fresh(b) /\ Checked(b, Len(vtx[b]))
BY BlockFacts DEF Valid, Fresh, Checked

(* A checked input is there when its turn comes.                            *)
LEMMA InputThere ==
    ASSUME NEW b \in Blocks \ {Genesis}, NEW i \in 1 .. Len(vtx[b]), Checked(b, i),
           NEW j \in Nat, j < Len(vin[vtx[b][i]])
    PROVE  LET o == vin[vtx[b][i]][j + 1] IN
           /\ o[1] \in Txs
           /\ o[2] \in Base(b, i, o[1]) \ Spent(b, i, j, o[1])
<1> DEFINE s == vin[vtx[b][i]]
           p == s[j + 1][1]
           n == s[j + 1][2]
<1>1. p \in Txs /\ j + 1 \in 1 .. Len(s) /\ s[j + 1] = <<p, n>> /\ Len(s) \in Nat /\ vtx[b][i] \in Txs
  BY NextInput, TxFacts
<1>2. n \in PartialUtxo(b, i, 0)[p].outs
  <2>1. InputsOK(vtx[b][i], PartialUtxo(b, i, 0), Height[b])
    BY BlockFacts DEF Checked
  <2> QED
    BY <1>1, <2>1 DEF InputsOK
<1>3. n \in Base(b, i, p) \ Spent(b, i, 0, p)
  <2> HIDE DEF p, n
  <2>1. PartialUtxo(b, i, 0)[p] = Coin(Base(b, i, p) \ Spent(b, i, 0, p), BaseHeight(b, i, p))
    BY <1>1, PartialIs
  <2> QED
    BY <1>2, <2>1, CoinParts
<1>4. ASSUME n \in Spent(b, i, j, p) PROVE FALSE
  <2>1. PICK k \in 1 .. Len(vtx[b]) : \E m \in 1 .. Len(vin[vtx[b][k]]) :
            /\ k < i \/ (k = i /\ m <= j)
            /\ vin[vtx[b][k]][m] = <<p, n>>
    BY <1>4 DEF Spent
  <2>2. PICK m \in 1 .. Len(vin[vtx[b][k]]) :
            /\ k < i \/ (k = i /\ m <= j)
            /\ vin[vtx[b][k]][m] = <<p, n>>
    BY <2>1
  <2>3. ~(k < i)
    <3>1. n \in vout[p]
      BY <1>4, <1>1, SpentType
    <3> QED
      BY <1>3, <2>2, <3>1 DEF Spent
  <2>4. k = i /\ m <= j /\ m \in 1 .. Len(s) /\ s[m] = s[j + 1]
    BY <1>1, <2>2, <2>3
  <2>5. m = j + 1
    <3>1. \A x, y \in 1 .. Len(vin[vtx[b][i]]) : vin[vtx[b][i]][x] = vin[vtx[b][i]][y] => x = y
      BY <1>1, TxAssumption
    <3> QED
      BY <1>1, <2>4, <3>1
  <2> QED
    BY <2>4, <2>5
<1> QED
  BY <1>1, <1>3, <1>4

(* Nothing before a transaction of the block, nor itself, spends from it.   *)
LEMMA NothingSpent ==
    ASSUME NEW b \in Blocks \ {Genesis}, NEW i \in 1 .. Len(vtx[b]), Fresh(b), Checked(b, i)
    PROVE  Spent(b, i, Len(vin[vtx[b][i]]), vtx[b][i]) = {}
<1> DEFINE t == vtx[b][i]
<1>1. t \in Txs
  BY TxFacts
<1> SUFFICES ASSUME NEW n \in Spent(b, i, Len(vin[t]), t) PROVE FALSE
  OBVIOUS
<1>2. PICK k \in 1 .. Len(vtx[b]) : \E m \in 1 .. Len(vin[vtx[b][k]]) :
          /\ k < i \/ (k = i /\ m <= Len(vin[t]))
          /\ vin[vtx[b][k]][m] = <<t, n>>
  BY DEF Spent
<1>3. PICK m \in 1 .. Len(vin[vtx[b][k]]) :
          /\ k < i \/ (k = i /\ m <= Len(vin[t]))
          /\ vin[vtx[b][k]][m] = <<t, n>>
  BY <1>2
<1>4. k <= i /\ k \in 1 .. i
  BY <1>3
<1>5. InputsOK(vtx[b][k], PartialUtxo(b, k, 0), Height[b])
  BY <1>4 DEF Checked
<1>6. n \in PartialUtxo(b, k, 0)[t].outs
  <2>1. vin[vtx[b][k]][m][1] = t /\ vin[vtx[b][k]][m][2] = n
    BY <1>3
  <2>2. \A q \in 1 .. Len(vin[vtx[b][k]]) :
            vin[vtx[b][k]][q][2] \in PartialUtxo(b, k, 0)[vin[vtx[b][k]][q][1]].outs
    BY <1>5, Zenon DEF InputsOK
  <2> QED
    BY <2>1, <2>2
<1>7. t \notin Created(b, k) /\ Utxo[Parent[b]][t].outs = {}
  BY <1>4, CreatedFacts DEF Fresh, Pruned
<1> HIDE DEF t
<1>8. PartialUtxo(b, k, 0)[t].outs = {}
  <2>1. PartialUtxo(b, k, 0)[t] = Coin(Base(b, k, t) \ Spent(b, k, 0, t), BaseHeight(b, k, t))
    BY <1>1, PartialIs
  <2>2. Base(b, k, t) \ Spent(b, k, 0, t) = {}
    BY <1>7 DEF Base
  <2> QED
    BY <2>1, <2>2, CoinParts
<1> QED
  BY <1>6, <1>8

(* UpdateCoins adds the outputs. *)
LEMMA PartialAdd ==
    ASSUME NEW b \in Blocks \ {Genesis}, NEW i \in 1 .. Len(vtx[b]), Fresh(b), Checked(b, i)
    PROVE  LET t == vtx[b][i]
               j == Len(vin[vtx[b][i]]) IN
           /\ PartialUtxo(b, i + 1, 0) = [PartialUtxo(b, i, j) EXCEPT ![t] = Coin(vout[t], Height[b])]
           /\ PartialUtxo(b, i + 1, 0)[t] = Coin(vout[t], Height[b])
           /\ PartialUtxo(b, i, j)[t] = Pruned
<1> DEFINE t == vtx[b][i]
           j == Len(vin[t])
<1>1. t \in Txs
  BY TxFacts
<1>2. Spent(b, i, j, t) = {} /\ \A q \in Txs : Spent(b, i + 1, 0, q) = Spent(b, i, j, q)
  BY NothingSpent, SpentNext
<1>3. Created(b, i + 1) = Created(b, i) \cup {t} /\ t \notin Created(b, i)
      /\ Utxo[Parent[b]][t] = Pruned
  BY CreatedFacts DEF Fresh
<1> HIDE DEF t, j
<1>4. PartialUtxo(b, i + 1, 0)[t] = Coin(vout[t], Height[b])
  <2>1. PartialUtxo(b, i + 1, 0)[t]
            = Coin(Base(b, i + 1, t) \ Spent(b, i + 1, 0, t), BaseHeight(b, i + 1, t))
    BY <1>1, PartialIs
  <2>2. Base(b, i + 1, t) = vout[t] /\ BaseHeight(b, i + 1, t) = Height[b]
    BY <1>3 DEF Base, BaseHeight
  <2>3. Spent(b, i + 1, 0, t) = {}
    BY <1>1, <1>2
  <2>4. vout[t] \ {} = vout[t]
    OBVIOUS
  <2> QED
    BY <2>1, <2>2, <2>3, <2>4
<1>5. PartialUtxo(b, i, j)[t] = Pruned
  <2>1. PartialUtxo(b, i, j)[t] = Coin(Base(b, i, t) \ Spent(b, i, j, t), BaseHeight(b, i, t))
    BY <1>1, PartialIs
  <2>2. Base(b, i, t) \ Spent(b, i, j, t) = {}
    BY <1>3 DEF Base, Pruned
  <2> QED
    BY <2>1, <2>2, CoinParts
<1>6. ASSUME NEW q \in Txs, q # t PROVE PartialUtxo(b, i + 1, 0)[q] = PartialUtxo(b, i, j)[q]
  <2>1. Base(b, i + 1, q) = Base(b, i, q) /\ BaseHeight(b, i + 1, q) = BaseHeight(b, i, q)
    BY <1>3, <1>6 DEF Base, BaseHeight
  <2>2. /\ PartialUtxo(b, i + 1, 0)[q]
              = Coin(Base(b, i + 1, q) \ Spent(b, i + 1, 0, q), BaseHeight(b, i + 1, q))
        /\ PartialUtxo(b, i, j)[q] = Coin(Base(b, i, q) \ Spent(b, i, j, q), BaseHeight(b, i, q))
    BY PartialIs
  <2> QED
    BY <1>2, <2>1, <2>2
<1>7. /\ DOMAIN PartialUtxo(b, i, j) = Txs
      /\ PartialUtxo(b, i + 1, 0) = [q \in Txs |-> PartialUtxo(b, i + 1, 0)[q]]
  BY PartialType
<1>8. PartialUtxo(b, i + 1, 0) = [PartialUtxo(b, i, j) EXCEPT ![t] = Coin(vout[t], Height[b])]
  <2> DEFINE g == [PartialUtxo(b, i, j) EXCEPT ![t] = Coin(vout[t], Height[b])]
  <2>1. g = [q \in Txs |-> g[q]]
    BY <1>7
  <2>2. \A q \in Txs : PartialUtxo(b, i + 1, 0)[q] = g[q]
    BY <1>1, <1>4, <1>6, <1>7
  <2> HIDE DEF g
  <2>3. PartialUtxo(b, i + 1, 0) = g
    BY <1>7, <2>1, <2>2
  <2> QED
    BY <2>3 DEF g
<1> QED
  BY <1>4, <1>5, <1>8 DEF t, j


(* A valid block is applied in full. *)
LEMMA PartialEnd ==
    ASSUME NEW b \in Blocks \ {Genesis}, Valid(b)
    PROVE  PartialUtxo(b, Len(vtx[b]) + 1, 0) = Utxo[b]
BY UtxoAssumption

-----------------------------------------------------------------------------
(* The layers.                                                              *)

LEMMA NotACoin == Absent \notin Coins
BY ParameterAssumption

LEMMA PrunedIsCoin == Pruned \in Coins /\ Pruned # Absent
BY NotACoin DEF Coins

LEMMA ContentFacts ==
    ASSUME NEW c \in Coins \cup {Absent}
    PROVE  /\ Content(c) \in Coins
           /\ c # Absent => Content(c) = c
           /\ c = Absent => Content(c) = Pruned
BY PrunedIsCoin DEF Content

LEMMA ContentsType ==
    ASSUME NEW f \in Layer
    PROVE  /\ Contents(f) = [t \in Txs |-> Contents(f)[t]]
           /\ \A t \in Txs : Contents(f)[t] = Content(f[t])
           /\ DOMAIN Contents(f) = Txs
BY DEF Contents

LEMMA EmptyLayer ==
    ASSUME NEW f \in Layer
    PROVE  /\ Empty \in Layer /\ \A t \in Txs : Empty[t] = Absent
           /\ Over(Empty, f) = f
           /\ Over(f, Empty) = f
<1>1. f = [t \in Txs |-> f[t]]
  BY DEF Layer
<1>2. Empty \in Layer /\ \A t \in Txs : Empty[t] = Absent
  BY DEF Empty, Layer
<1>3. Over(Empty, f) = [t \in Txs |-> f[t]]
  BY <1>2 DEF Over
<1>4. \A t \in Txs : (IF f[t] # Absent THEN f[t] ELSE Empty[t]) = f[t]
  BY <1>2
<1>5. Over(f, Empty) = [t \in Txs |-> f[t]]
  BY <1>4 DEF Over
<1> QED
  BY <1>1, <1>2, <1>3, <1>5

LEMMA OverFacts ==
    ASSUME NEW f \in Layer, NEW g \in Layer
    PROVE  /\ Over(f, g) \in Layer
           /\ \A t \in Txs : /\ f[t] # Absent => Over(f, g)[t] = f[t]
                             /\ f[t] = Absent => Over(f, g)[t] = g[t]
BY DEF Over, Layer

LEMMA OverOver ==
    ASSUME NEW f \in Layer, NEW g \in Layer, NEW h \in Layer
    PROVE  Over(Over(f, g), h) = Over(f, Over(g, h))
<1>1. \A t \in Txs : Over(f, g)[t] = IF f[t] # Absent THEN f[t] ELSE g[t]
  BY DEF Over
<1>2. \A t \in Txs : Over(g, h)[t] = IF g[t] # Absent THEN g[t] ELSE h[t]
  BY DEF Over
<1>3. \A t \in Txs : (IF Over(f, g)[t] # Absent THEN Over(f, g)[t] ELSE h[t])
                     = (IF f[t] # Absent THEN f[t] ELSE Over(g, h)[t])
  BY <1>1, <1>2
<1> QED
  BY <1>3 DEF Over

(* A look-up copies, and changes no answer.                                 *)
LEMMA FetchedFacts ==
    ASSUME NEW f \in Layer, NEW g \in Layer, NEW ts
    PROVE  /\ Fetched(f, g, ts) \in Layer
           /\ Over(Fetched(f, g, ts), g) = Over(f, g)
           /\ \A t \in Txs : /\ f[t] # Absent => Fetched(f, g, ts)[t] = f[t]
                             /\ t \notin ts => Fetched(f, g, ts)[t] = f[t]
                             /\ Fetched(f, g, ts)[t] \in {f[t], g[t]}
<1> DEFINE F == Fetched(f, g, ts)
<1>1. \A t \in Txs : F[t] = IF t \in ts /\ f[t] = Absent THEN g[t] ELSE f[t]
  BY DEF Fetched
<1>2. F \in Layer
  BY DEF Fetched, Layer
<1> HIDE DEF F
<1>3. \A t \in Txs : (IF F[t] # Absent THEN F[t] ELSE g[t]) = (IF f[t] # Absent THEN f[t] ELSE g[t])
  BY <1>1
<1>4. Over(F, g) = Over(f, g)
  BY <1>3 DEF Over
<1> QED
  BY <1>1, <1>2, <1>4 DEF F

(* What the layers answer when one entry of the upper one is written.       *)
LEMMA ChangeFacts ==
    ASSUME NEW f \in Layer, NEW g \in Layer, NEW ts, NEW t \in Txs, NEW c \in Coins
    PROVE  LET F == [Fetched(f, g, ts) EXCEPT ![t] = c] IN
           /\ F \in Layer
           /\ Contents(Over(F, g)) = [Contents(Over(f, g)) EXCEPT ![t] = c]
           /\ F[t] = c
           /\ \A q \in Txs : q # t => F[q] = Fetched(f, g, ts)[q]
<1> DEFINE H == Fetched(f, g, ts)
           F == [H EXCEPT ![t] = c]
           A == Contents(Over(F, g))
           B == Contents(Over(f, g))
<1>1. H \in Layer /\ Over(H, g) = Over(f, g)
  BY FetchedFacts
<1> HIDE DEF H
<1>2. /\ F \in Layer /\ F[t] = c
      /\ \A q \in Txs : q # t => F[q] = H[q]
  BY <1>1 DEF Layer
<1> HIDE DEF F
<1>3. /\ Over(F, g)[t] = c
      /\ \A q \in Txs : q # t => Over(F, g)[q] = Over(H, g)[q]
      /\ Over(F, g) \in Layer /\ Over(H, g) \in Layer
  BY <1>1, <1>2, NotACoin, OverFacts DEF Over
<1>4. Content(c) = c
  BY NotACoin DEF Content
<1>5. /\ A[t] = c
      /\ \A q \in Txs : q # t => A[q] = B[q]
      /\ A = [q \in Txs |-> A[q]]
      /\ DOMAIN B = Txs
  BY <1>1, <1>3, <1>4, ContentsType
<1> HIDE DEF A, B
<1>6. A = [B EXCEPT ![t] = c]
  <2> DEFINE C == [B EXCEPT ![t] = c]
  <2>1. C = [q \in Txs |-> C[q]]
    BY <1>5
  <2>2. \A q \in Txs : A[q] = C[q]
    BY <1>5
  <2> HIDE DEF C
  <2>3. A = C
    BY <1>5, <2>1, <2>2
  <2> QED
    BY <2>3 DEF C
<1> QED
  BY <1>2, <1>6 DEF A, B, F, H

(* A flush changes no answer, and leaves no spent entry in the database.    *)
LEMMA WriteFacts ==
    ASSUME NEW f \in Layer, NEW g \in Layer, \A t \in Txs : g[t] # Pruned
    PROVE  /\ BatchWrite(f, g) \in Layer
           /\ \A t \in Txs : BatchWrite(f, g)[t] # Pruned
           /\ Contents(BatchWrite(f, g)) = Contents(Over(f, g))
<1> DEFINE W == BatchWrite(f, g)
<1>1. \A t \in Txs : /\ f[t] = Absent => W[t] = g[t]
                     /\ f[t] = Pruned => W[t] = Absent
                     /\ f[t] \notin {Absent, Pruned} => W[t] = f[t]
  BY PrunedIsCoin DEF BatchWrite
<1>2. W = [t \in Txs |-> W[t]]
  BY DEF BatchWrite
<1> HIDE DEF W
<1>3. \A t \in Txs : f[t] \in Coins \cup {Absent} /\ g[t] \in Coins \cup {Absent}
  BY DEF Layer
<1>4. \A t \in Txs : W[t] \in Coins \cup {Absent} /\ W[t] # Pruned
  BY <1>1, <1>3, PrunedIsCoin
<1>5. W \in Layer
  BY <1>2, <1>4 DEF Layer
<1>6. \A t \in Txs : Content(W[t]) = Content(Over(f, g)[t])
  BY <1>1, <1>3, PrunedIsCoin, OverFacts DEF Content
<1>7. Contents(W) = Contents(Over(f, g))
  BY <1>6 DEF Contents
<1> QED
  BY <1>4, <1>5, <1>7 DEF W


-----------------------------------------------------------------------------
(* The invariant.                                                           *)

(* The entries that applying a block up to <<i, j>> writes, and those that  *)
(* taking it back to <<i, j>> does.                                         *)
Wrote(b, i, j) ==
    {t \in Txs : \E k \in 1 .. Len(vtx[b]) :
        \/ k < i /\ vtx[b][k] = t
        \/ \E m \in 1 .. Len(vin[vtx[b][k]]) :
              (k < i \/ (k = i /\ m <= j)) /\ vin[vtx[b][k]][m][1] = t}
Unwrote(b, i, j) ==
    {t \in Txs : \E k \in 1 .. Len(vtx[b]) :
        \/ k >= i /\ vtx[b][k] = t
        \/ \E m \in 1 .. Len(vin[vtx[b][k]]) :
              (k > i \/ (k = i /\ m > j)) /\ vin[vtx[b][k]][m][1] = t}

(* The undo entry of an input.                                              *)
UndoEntry(b, i, j) ==
    SpentHeight(PartialUtxo(b, i, j - 1)[vin[vtx[b][i]][j][1]], vin[vtx[b][i]][j][2])

UndoRight(b, u) ==
    \A i \in 1 .. Len(vtx[b]) : \A j \in 1 .. Len(vin[vtx[b][i]]) : u[<<i, j>>] = UndoEntry(b, i, j)

UndoFunction == DOMAIN undo = Blocks

StoreRight ==
    /\ Contents(TipCoins) = Utxo[hashBlock]
    /\ Contents(db) = Utxo[dbBest]
    /\ \A t \in Txs : db[t] # Pruned

UndoKept ==
    /\ \A b \in Blocks \ {Genesis} :
          undo[b] # NoUndo => /\ Valid(b) /\ UndoRight(b, undo[b])
                              /\ Parent[b] # Genesis => undo[Parent[b]] # NoUndo
    /\ hashBlock # Genesis => undo[hashBlock] # NoUndo
    /\ dbBest # Genesis => undo[dbBest] # NoUndo

InBlock(b) == Wrote(b, Len(vtx[b]) + 1, 0)

Connecting ==
    /\ block # Genesis /\ Parent[block] = hashBlock /\ Fresh(block)
    /\ Contents(ViewCoins) = PartialUtxo(block, nTx, nIn)
    /\ \A t \in Wrote(block, nTx, nIn) : view[t] # Absent
    /\ \A t \in Txs : view[t] # Absent => t \in InBlock(block)
    /\ \A i \in 1 .. Len(vtx[block]) : \A j \in 1 .. Len(vin[vtx[block][i]]) :
          i < nTx \/ (i = nTx /\ j <= nIn) => blockundo[<<i, j>>] = UndoEntry(block, i, j)
    /\ pc = "inputs" => nTx \in 1 .. Len(vtx[block]) /\ nIn = 0 /\ Checked(block, nTx - 1)
    /\ pc = "spend" => /\ nTx \in 1 .. Len(vtx[block]) /\ nIn <= Len(vin[vtx[block][nTx]])
                       /\ Checked(block, nTx)
    /\ pc = "connected" => nTx = Len(vtx[block]) + 1 /\ nIn = 0 /\ Checked(block, nTx - 1)

(* A transaction without spendable outputs is taken back only where the     *)
(* cache holds an entry for it.                                             *)
Entry(t) == vout[t] # {} \/ cacheCoins[t] = Pruned

Disconnecting ==
    /\ block # Genesis /\ block = hashBlock /\ fClean
    /\ nTx \in 1 .. Len(vtx[block]) + 1
    /\ nTx = Len(vtx[block]) + 1 => nIn = 0
    /\ nTx # Len(vtx[block]) + 1 => nIn <= Len(vin[vtx[block][nTx]])
    /\ Contents(ViewCoins) = PartialUtxo(block, nTx, nIn)
    /\ \A t \in Unwrote(block, nTx, nIn) : Entry(t) => view[t] # Absent
    /\ \A t \in Txs : view[t] # Absent => t \in InBlock(block) /\ Entry(t)

IInv ==
    /\ TypeOK
    /\ UndoFunction
    /\ StoreRight
    /\ UndoKept
    /\ ValidNeverRefused
    /\ Applying => Connecting
    /\ pc = "undo" => Disconnecting
    /\ ~Applying /\ pc # "undo" => view = Empty


LEMMA CallRight ==
    ASSUME IInv
    PROVE  /\ CleanDisconnect
           /\ ViewExact
BY DEF IInv, UndoKept, Connecting, Disconnecting, CleanDisconnect, ViewExact, Applying

LEMMA LookedUp ==
    ASSUME TypeOK, StoreRight, NEW ts, LookUp(ts), UNCHANGED db
    PROVE  /\ cacheCoins' \in Layer
           /\ TipCoins' = TipCoins
           /\ \A t \in Txs : cacheCoins'[t] = Pruned <=> cacheCoins[t] = Pruned
<1> DEFINE S == {t \in ts : view[t] = Absent}
<1>1. cacheCoins \in Layer /\ db \in Layer /\ cacheCoins' = Fetched(cacheCoins, db, S) /\ db' = db
  BY DEF TypeOK, LookUp
<1> HIDE DEF S
<1>2. cacheCoins' \in Layer /\ Over(cacheCoins', db) = Over(cacheCoins, db)
  BY <1>1, FetchedFacts
<1>3. TipCoins' = TipCoins
  BY <1>1, <1>2 DEF TipCoins
<1>4. \A t \in Txs : cacheCoins'[t] = Pruned <=> cacheCoins[t] = Pruned
  <2>1. \A t \in Txs : db[t] # Pruned
    BY DEF StoreRight
  <2>2. \A t \in Txs : cacheCoins[t] # Absent => cacheCoins'[t] = cacheCoins[t]
    BY <1>1, FetchedFacts
  <2>3. \A t \in Txs : cacheCoins'[t] \in {cacheCoins[t], db[t]}
    BY <1>1, FetchedFacts
  <2> QED
    BY <2>1, <2>2, <2>3, PrunedIsCoin
<1> QED
  BY <1>2, <1>3, <1>4

LEMMA LayerTypes ==
    ASSUME TypeOK
    PROVE  /\ view \in Layer /\ cacheCoins \in Layer /\ db \in Layer
           /\ TipCoins \in Layer /\ ViewCoins \in Layer
<1>1. view \in Layer /\ cacheCoins \in Layer /\ db \in Layer
  BY DEF TypeOK
<1>2. TipCoins \in Layer
  BY <1>1, OverFacts DEF TipCoins
<1>3. ViewCoins \in Layer
  BY <1>1, <1>2, OverFacts DEF ViewCoins
<1> QED
  BY <1>1, <1>2, <1>3

(* The view after a call has changed one entry in it.                       *)
LEMMA Changed ==
    ASSUME TypeOK, TipCoins' = TipCoins, NEW ts, NEW t \in Txs, NEW c \in Coins, Change(ts, t, c)
    PROVE  /\ view' \in Layer
           /\ Contents(ViewCoins)' = [Contents(ViewCoins) EXCEPT ![t] = c]
           /\ view'[t] = c
           /\ \A q \in Txs : q # t /\ q \notin ts => view'[q] = view[q]
           /\ \A q \in Txs : view[q] # Absent => view'[q] # Absent
<1>1. view \in Layer /\ TipCoins \in Layer
  BY LayerTypes
<1>2. view' = [Fetched(view, TipCoins, ts) EXCEPT ![t] = c]
  BY DEF Change
<1>3. /\ view' \in Layer
      /\ Contents(Over(view', TipCoins)) = [Contents(Over(view, TipCoins)) EXCEPT ![t] = c]
      /\ view'[t] = c
      /\ \A q \in Txs : q # t => view'[q] = Fetched(view, TipCoins, ts)[q]
  <2> DEFINE F == [Fetched(view, TipCoins, ts) EXCEPT ![t] = c]
  <2>1. /\ F \in Layer
        /\ Contents(Over(F, TipCoins)) = [Contents(Over(view, TipCoins)) EXCEPT ![t] = c]
        /\ F[t] = c
        /\ \A q \in Txs : q # t => F[q] = Fetched(view, TipCoins, ts)[q]
    BY <1>1, ChangeFacts
  <2>2. view' = F
    BY <1>2
  <2> HIDE DEF F
  <2> QED
    BY <2>1, <2>2
<1>4. Contents(ViewCoins)' = Contents(Over(view', TipCoins))
  BY DEF ViewCoins, Contents
<1>5. \A q \in Txs : /\ view[q] # Absent => Fetched(view, TipCoins, ts)[q] = view[q]
                     /\ q \notin ts => Fetched(view, TipCoins, ts)[q] = view[q]
  BY <1>1, FetchedFacts
<1>6. c # Absent
  BY NotACoin
<1>7. Contents(ViewCoins)' = [Contents(ViewCoins) EXCEPT ![t] = c]
  BY <1>3, <1>4 DEF ViewCoins
<1>8. \A q \in Txs : q # t /\ q \notin ts => view'[q] = view[q]
  BY <1>3, <1>5
<1>9. \A q \in Txs : view[q] # Absent => view'[q] # Absent
  BY <1>3, <1>5, <1>6
<1> QED
  BY <1>3, <1>7, <1>8, <1>9

(* The steps of a call that keep the stores.                                *)
LEMMA StoreKept ==
    ASSUME StoreRight, TipCoins' = TipCoins, UNCHANGED <<hashBlock, db, dbBest>>
    PROVE  StoreRight'
BY DEF StoreRight, Contents

LEMMA CallEnds ==
    ASSUME IInv, NEW n \in {"idle", "dying", "down"}, EndCall(n), StoreRight',
           cacheCoins' \in Layer, db' \in Layer,
           UNCHANGED undo,
           hashBlock' \in {hashBlock, dbBest}, dbBest' \in {hashBlock, dbBest},
           refused' \subseteq Blocks, ValidNeverRefused',
           restarts' \in 0 .. MaxRestarts, diskErrors' \in 0 .. MaxDiskErrors
    PROVE  IInv'
<1>1. /\ view' = Empty /\ nTx' = 1 /\ nIn' = 0 /\ fClean' = TRUE
      /\ blockundo' = [ij \in UndoIndex(Genesis) |-> 0]
      /\ block' = Genesis /\ pc' = n
  BY DEF EndCall, DropView
<1>2. ~Applying' /\ pc' # "undo"
  BY <1>1 DEF Applying
<1>3. TypeOK'
  <2>1. Genesis \in Blocks
    BY TreeAssumption
  <2>2. Empty \in Layer
    BY DEF Empty, Layer
  <2>3. /\ hashBlock \in Blocks /\ dbBest \in Blocks
        /\ \A b \in Blocks : undo[b] \in [UndoIndex(b) -> Nat] \cup {NoUndo}
    BY DEF IInv, TypeOK
  <2> QED
    BY <1>1, <1>2, <2>1, <2>2, <2>3 DEF TypeOK
<1>4. UndoFunction' /\ UndoKept'
  BY DEF IInv, UndoFunction, UndoKept
<1> QED
  BY <1>1, <1>2, <1>3, <1>4 DEF IInv


-----------------------------------------------------------------------------
(* What a call writes.                                                      *)

LEMMA WroteNothing ==
    ASSUME NEW b \in Blocks \ {Genesis}
    PROVE  Wrote(b, 1, 0) = {} /\ Unwrote(b, Len(vtx[b]) + 1, 0) = {}
BY BlockFacts DEF Wrote, Unwrote

LEMMA WroteInput ==
    ASSUME NEW b \in Blocks \ {Genesis}, NEW i \in 1 .. Len(vtx[b]), NEW j \in Nat,
           j < Len(vin[vtx[b][i]]), NEW p, p = vin[vtx[b][i]][j + 1][1]
    PROVE  /\ \A t \in Wrote(b, i, j + 1) : t \in Wrote(b, i, j) \/ t = p
           /\ \A t \in Unwrote(b, i, j) : t \in Unwrote(b, i, j + 1) \/ t = p
           /\ p \in InBlock(b)
<1>1. \A k \in 1 .. Len(vtx[b]) : Len(vin[vtx[b][k]]) \in Nat
  BY TxFacts
<1>2. \A k \in 1 .. Len(vtx[b]) : \A m \in 1 .. Len(vin[vtx[b][k]]) :
          /\ k < i \/ (k = i /\ m <= j + 1) => k < i \/ (k = i /\ m <= j) \/ (k = i /\ m = j + 1)
          /\ k > i \/ (k = i /\ m > j) => k > i \/ (k = i /\ m > j + 1) \/ (k = i /\ m = j + 1)
  BY <1>1
<1>3. \A t \in Wrote(b, i, j + 1) : t \in Wrote(b, i, j) \/ t = p
  BY <1>2 DEF Wrote
<1>4. \A t \in Unwrote(b, i, j) : t \in Unwrote(b, i, j + 1) \/ t = p
  BY <1>2 DEF Unwrote
<1>5. p \in Txs /\ j + 1 \in 1 .. Len(vin[vtx[b][i]])
  BY NextInput
<1>6. i < Len(vtx[b]) + 1
  BY BlockFacts
<1>7. p \in InBlock(b)
  BY <1>5, <1>6 DEF InBlock, Wrote
<1> QED
  BY <1>3, <1>4, <1>7

LEMMA WroteOutputs ==
    ASSUME NEW b \in Blocks \ {Genesis}, NEW i \in 1 .. Len(vtx[b])
    PROVE  /\ \A t \in Wrote(b, i + 1, 0) : t \in Wrote(b, i, Len(vin[vtx[b][i]])) \/ t = vtx[b][i]
           /\ \A t \in Unwrote(b, i, Len(vin[vtx[b][i]])) : t \in Unwrote(b, i + 1, 0) \/ t = vtx[b][i]
           /\ vtx[b][i] \in InBlock(b)
<1>1. \A k \in 1 .. Len(vtx[b]) : Len(vin[vtx[b][k]]) \in Nat
  BY TxFacts
<1>2. \A k \in 1 .. Len(vtx[b]) : \A m \in 1 .. Len(vin[vtx[b][k]]) :
          /\ k < i + 1 \/ (k = i + 1 /\ m <= 0) => k < i \/ (k = i /\ m <= Len(vin[vtx[b][i]]))
          /\ k > i \/ (k = i /\ m > Len(vin[vtx[b][i]])) => k > i + 1 \/ (k = i + 1 /\ m > 0)
  BY <1>1
<1>3. \A k \in 1 .. Len(vtx[b]) : /\ k < i + 1 => k < i \/ k = i
                                  /\ k >= i => k >= i + 1 \/ k = i
  BY BlockFacts
<1>4. \A t \in Wrote(b, i + 1, 0) : t \in Wrote(b, i, Len(vin[vtx[b][i]])) \/ t = vtx[b][i]
  BY <1>2, <1>3 DEF Wrote
<1>5. \A t \in Unwrote(b, i, Len(vin[vtx[b][i]])) : t \in Unwrote(b, i + 1, 0) \/ t = vtx[b][i]
  BY <1>2, <1>3 DEF Unwrote
<1>6. vtx[b][i] \in InBlock(b)
  <2>1. vtx[b][i] \in Txs /\ i < Len(vtx[b]) + 1
    BY BlockFacts, TxFacts
  <2> QED
    BY <2>1 DEF InBlock, Wrote
<1> QED
  BY <1>4, <1>5, <1>6

LEMMA UnwroteAll ==
    ASSUME NEW b \in Blocks \ {Genesis}
    PROVE  Unwrote(b, 1, 0) = InBlock(b)
<1>1. \A k \in 1 .. Len(vtx[b]) : k >= 1 /\ k < Len(vtx[b]) + 1
  BY BlockFacts
<1>2. \A k \in 1 .. Len(vtx[b]) : \A m \in 1 .. Len(vin[vtx[b][k]]) : (k > 1 \/ (k = 1 /\ m > 0))
  BY BlockFacts, TxFacts
<1> QED
  BY <1>1, <1>2 DEF InBlock, Wrote, Unwrote

LEMMA BlockIsValid ==
    ASSUME NEW b \in Blocks \ {Genesis}, Valid(b), NEW i \in 1 .. Len(vtx[b])
    PROVE  Fresh(b) /\ Checked(b, i)
<1>1. Fresh(b) /\ Checked(b, Len(vtx[b]))
  BY ValidMeans
<1> QED
  BY <1>1, BlockFacts DEF Checked


-----------------------------------------------------------------------------
(* The steps of ConnectTip.                                                 *)

LEMMA OverwritesFact ==
    ASSUME IInv, NEW b \in Blocks \ {Genesis}, Parent[b] = hashBlock
    PROVE  Overwrites(b) <=> ~Fresh(b)
<1>1. TipCoins \in Layer
  BY LayerTypes DEF IInv
<1>2. \A t \in Txs : Contents(TipCoins)[t] = Content(TipCoins[t])
  BY <1>1, ContentsType
<1>3. \A i \in 1 .. Len(vtx[b]) : vtx[b][i] \in Txs
  BY TxFacts
<1>4. Contents(TipCoins) = Utxo[Parent[b]]
  BY DEF IInv, StoreRight
<1> QED
  BY <1>2, <1>3, <1>4 DEF Overwrites, Fresh

LEMMA RefuseKeeps ==
    ASSUME IInv, NEW b \in Blocks, ~Valid(b), Refuse(b), StoreRight', cacheCoins' \in Layer,
           UNCHANGED <<hashBlock, db, dbBest, boundVars>>
    PROVE  IInv'
<1>1. EndCall("idle") /\ refused' = refused \cup {b} /\ undo' = undo
  BY DEF Refuse
<1>2. TypeOK /\ ValidNeverRefused
  BY DEF IInv
<1>3. refused' \subseteq Blocks
  BY <1>1, <1>2 DEF TypeOK
<1>4. ValidNeverRefused'
  BY <1>1, <1>2 DEF ValidNeverRefused
<1>5. db' \in Layer /\ restarts' \in 0 .. MaxRestarts /\ diskErrors' \in 0 .. MaxDiskErrors
  BY <1>2 DEF TypeOK, boundVars
<1> QED
  BY <1>1, <1>3, <1>4, <1>5, CallEnds

LEMMA ConnectBlockStep ==
    ASSUME IInv, NEW b \in Blocks \ {Genesis}, ConnectBlock(b)
    PROVE  IInv'
<1> DEFINE ts == {vtx[b][i] : i \in 1 .. Len(vtx[b])}
<1>1. /\ pc = "idle" /\ Parent[b] = hashBlock /\ LookUp(ts)
      /\ UNCHANGED <<hashBlock, db, dbBest, boundVars>>
  BY DEF ConnectBlock
<1>2. TypeOK /\ StoreRight /\ view = Empty
  BY <1>1 DEF IInv, Applying
<1> HIDE DEF ts
<1>3. cacheCoins' \in Layer /\ TipCoins' = TipCoins
  BY <1>1, <1>2, LookedUp
<1>4. StoreRight'
  BY <1>1, <1>2, <1>3, StoreKept
<1>5. CASE Overwrites(b)
  <2>1. Refuse(b)
    BY <1>5 DEF ConnectBlock
  <2>2. ~Valid(b)
    BY <1>1, <1>5, OverwritesFact, ValidMeans
  <2> QED
    BY <1>1, <1>3, <1>4, <2>1, <2>2, RefuseKeeps
<1>6. CASE ~Overwrites(b)
  <2>1. /\ view' = Fetched(view, TipCoins, ts)
        /\ block' = b /\ nTx' = 1 /\ nIn' = 0
        /\ blockundo' = [ij \in UndoIndex(b) |-> 0]
        /\ pc' = "inputs"
        /\ UNCHANGED <<fClean, diskVars>>
    BY <1>6 DEF ConnectBlock, ts
  <2>2. view \in Layer /\ TipCoins \in Layer
    BY <1>2, LayerTypes
  <2>3. view' \in Layer /\ Over(view', TipCoins) = Over(view, TipCoins)
    BY <2>1, <2>2, FetchedFacts
  <2>4. TypeOK'
    <3>1. blockundo' \in [UndoIndex(b) -> Nat]
      BY <2>1
    <3>2. Applying'
      BY <2>1 DEF Applying
    <3> QED
      BY <1>1, <1>2, <1>3, <2>1, <2>3, <3>1, <3>2 DEF TypeOK, diskVars, boundVars
  <2>5. UndoFunction' /\ UndoKept' /\ ValidNeverRefused'
    BY <1>1, <2>1 DEF IInv, UndoFunction, UndoKept, ValidNeverRefused, diskVars
  <2>6. Connecting'
    <3>1. Contents(ViewCoins)' = PartialUtxo(b, 1, 0)
      <4>1. Contents(ViewCoins)' = Contents(Over(view', TipCoins))
        BY <1>3 DEF ViewCoins, Contents
      <4>2. Over(view, TipCoins) = TipCoins
        BY <1>2, <2>2, EmptyLayer
      <4>3. Contents(TipCoins) = Utxo[Parent[b]]
        BY <1>1, <1>2 DEF StoreRight
      <4> QED
        BY <2>3, <4>1, <4>2, <4>3, PartialStart
    <3>2. Fresh(b)
      BY <1>1, <1>6, OverwritesFact
    <3>3. Wrote(b, 1, 0) = {}
      BY WroteNothing
    <3>4. \A t \in Txs : view'[t] # Absent => t \in InBlock(b)
      <4>1. \A t \in Txs : t \notin ts => view'[t] = Absent
        BY <1>2, <2>1, <2>2, FetchedFacts, EmptyLayer
      <4>2. \A t \in ts : t \in InBlock(b)
        BY WroteOutputs DEF ts
      <4> QED
        BY <4>1, <4>2
    <3>5. 1 \in 1 .. Len(vtx[b]) /\ Checked(b, 1 - 1)
      BY BlockFacts DEF Checked
    <3>6. \A i \in 1 .. Len(vtx[b]) : \A j \in 1 .. Len(vin[vtx[b][i]]) : ~(i < 1 \/ (i = 1 /\ j <= 0))
      BY BlockFacts, TxFacts
    <3> QED
      BY <1>1, <2>1, <3>1, <3>2, <3>3, <3>4, <3>5, <3>6 DEF Connecting
  <2>7. Applying' /\ pc' # "undo"
    BY <2>1 DEF Applying
  <2> QED
    BY <1>4, <2>4, <2>5, <2>6, <2>7 DEF IInv
<1> QED
  BY <1>5, <1>6

LEMMA CheckInputsStep ==
    ASSUME IInv, CheckInputs
    PROVE  IInv'
<1> DEFINE prev == {vin[tx][m][1] : m \in 1 .. Len(vin[tx])}
<1>1. /\ pc = "inputs" /\ LookUp(prev)
      /\ UNCHANGED <<hashBlock, db, dbBest, boundVars>>
  BY DEF CheckInputs
<1>2. TypeOK /\ StoreRight /\ Connecting /\ Applying
  BY <1>1 DEF IInv, Applying
<1> HIDE DEF prev
<1>3. cacheCoins' \in Layer /\ TipCoins' = TipCoins
  BY <1>1, <1>2, LookedUp
<1>4. StoreRight'
  BY <1>1, <1>2, <1>3, StoreKept
<1>5. /\ block \in Blocks \ {Genesis} /\ Parent[block] = hashBlock
      /\ nTx \in 1 .. Len(vtx[block]) /\ nIn = 0 /\ Checked(block, nTx - 1)
      /\ tx = vtx[block][nTx]
  BY <1>1, <1>2 DEF Connecting, TypeOK, tx
<1>6. InputsOK(tx, Contents(ViewCoins), Height[hashBlock] + 1)
      <=> InputsOK(vtx[block][nTx], PartialUtxo(block, nTx, 0), Height[block])
  BY <1>2, <1>5, BlockFacts DEF Connecting
<1>7. CASE ~InputsOK(tx, Contents(ViewCoins), Height[hashBlock] + 1)
  <2>1. Refuse(block)
    BY <1>7 DEF CheckInputs
  <2>2. ~Valid(block)
    BY <1>5, <1>6, <1>7 DEF Valid
  <2> QED
    BY <1>1, <1>3, <1>4, <1>5, <2>1, <2>2, RefuseKeeps
<1>8. CASE InputsOK(tx, Contents(ViewCoins), Height[hashBlock] + 1)
  <2>1. view' = Fetched(view, TipCoins, prev) /\ pc' = "spend" /\ UNCHANGED <<callVars, diskVars>>
    BY <1>8 DEF CheckInputs, prev
  <2>2. view \in Layer /\ TipCoins \in Layer
    BY <1>2, LayerTypes
  <2>3. view' \in Layer /\ Over(view', TipCoins) = Over(view, TipCoins)
    BY <2>1, <2>2, FetchedFacts
  <2>4. Applying' /\ pc' # "undo"
    BY <2>1 DEF Applying
  <2>5. TypeOK'
    BY <1>1, <1>2, <1>3, <2>1, <2>3, <2>4 DEF TypeOK, callVars, diskVars, boundVars
  <2>6. UndoFunction' /\ UndoKept' /\ ValidNeverRefused'
    BY <1>1, <2>1 DEF IInv, UndoFunction, UndoKept, ValidNeverRefused, diskVars
  <2>7. Connecting'
    <3>1. Contents(ViewCoins)' = Contents(ViewCoins)
      BY <1>3, <2>3 DEF ViewCoins, Contents
    <3>2. \A t \in Txs : view[t] # Absent => view'[t] # Absent
      BY <2>1, <2>2, FetchedFacts
    <3>3. \A t \in Txs : view'[t] # Absent => t \in InBlock(block)
      <4>1. \A t \in Txs : t \notin prev => view'[t] = view[t]
        BY <2>1, <2>2, FetchedFacts
      <4>2. \A t \in prev : t \in InBlock(block)
        <5> SUFFICES ASSUME NEW m \in 1 .. Len(vin[tx]) PROVE vin[tx][m][1] \in InBlock(block)
          BY DEF prev
        <5>1. m - 1 \in Nat /\ m - 1 < Len(vin[vtx[block][nTx]]) /\ (m - 1) + 1 = m
          BY <1>5, TxFacts
        <5> QED
          BY <1>5, <5>1, WroteInput
      <4> QED
        BY <1>2, <4>1, <4>2 DEF Connecting
    <3>4. Checked(block, nTx)
      <4>1. \A k \in 1 .. Len(vtx[block]) : k <= nTx => k <= nTx - 1 \/ k = nTx
        BY <1>5, BlockFacts
      <4> QED
        BY <1>5, <1>6, <1>8, <4>1 DEF Checked
    <3>5. 0 <= Len(vin[vtx[block][nTx]])
      BY <1>5, TxFacts
    <3>6. \A t \in Wrote(block, nTx, nIn) : t \in Txs
      BY DEF Wrote
    <3> QED
      BY <1>1, <1>2, <1>5, <2>1, <3>1, <3>2, <3>3, <3>4, <3>5, <3>6 DEF Connecting, callVars
  <2> QED
    BY <1>4, <2>4, <2>5, <2>6, <2>7 DEF IInv
<1> QED
  BY <1>7, <1>8


LEMMA SpendInputStep ==
    ASSUME IInv, SpendInput
    PROVE  IInv'
<1> DEFINE o == vin[vtx[block][nTx]][nIn + 1]
           p == o[1]
           n == o[2]
           c == Content(ViewCoins[p])
           S == Base(block, nTx, p) \ Spent(block, nTx, nIn, p)
           h == BaseHeight(block, nTx, p)
<1>1. /\ pc = "spend" /\ nIn < Len(vin[vtx[block][nTx]])
      /\ LookUp({p}) /\ Change({p}, p, Spend(c, n))
      /\ blockundo' = [blockundo EXCEPT ![<<nTx, nIn + 1>>] = SpentHeight(c, n)]
      /\ nIn' = nIn + 1
      /\ UNCHANGED <<hashBlock, db, dbBest, diskVars, block, nTx, fClean, pc, boundVars>>
  BY DEF SpendInput, tx
<1>2. TypeOK /\ StoreRight /\ Connecting /\ Applying
  BY <1>1 DEF IInv, Applying
<1>3. /\ block \in Blocks \ {Genesis} /\ Parent[block] = hashBlock
      /\ nTx \in 1 .. Len(vtx[block]) /\ nIn \in Nat /\ Checked(block, nTx) /\ Fresh(block)
      /\ Contents(ViewCoins) = PartialUtxo(block, nTx, nIn)
  BY <1>1, <1>2 DEF Connecting, TypeOK
<1>4. p \in Txs /\ n \in S
  <2>1. nIn < Len(vin[vtx[block][nTx]])
    BY <1>1
  <2> QED
    BY <1>3, <2>1, InputThere
<1>5. PartialUtxo(block, nTx, nIn)[p] = Coin(S, h)
  <2> HIDE DEF p
  <2> QED
    BY <1>3, <1>4, PartialIs DEF S, h
<1>6. /\ PartialUtxo(block, nTx, nIn + 1)
            = [PartialUtxo(block, nTx, nIn) EXCEPT ![p] = Spend(PartialUtxo(block, nTx, nIn)[p], n)]
      /\ PartialUtxo(block, nTx, nIn + 1)[p] = Coin(S \ {n}, h)
  BY <1>1, <1>3, PartialSpend
<1>7. PartialUtxo(block, nTx, nIn + 1)[p] \in Coins
  <2> HIDE DEF p, n, S, h
  <2> QED
    BY <1>3, <1>4, PartialIs
<1>8. S \in SUBSET Nat /\ h \in Nat
  <2> HIDE DEF p
  <2> QED
    BY <1>3, <1>4, BaseFacts DEF S, h
<1>9. SpentHeight(PartialUtxo(block, nTx, nIn)[p], n) = UndoEntry(block, nTx, nIn + 1)
  <2>1. (nIn + 1) - 1 = nIn
    BY <1>3
  <2> QED
    BY <2>1 DEF UndoEntry
<1> HIDE DEF o, p, n, S, h
<1>10. c = PartialUtxo(block, nTx, nIn)[p] /\ c \in Coins
  <2>1. ViewCoins \in Layer
    BY <1>2, LayerTypes
  <2>2. Contents(ViewCoins)[p] = Content(ViewCoins[p])
    BY <1>4, <2>1, ContentsType
  <2>3. PartialUtxo(block, nTx, nIn)[p] \in Coins
    BY <1>3, <1>4, PartialIs
  <2> QED
    BY <1>3, <2>2, <2>3
<1> HIDE DEF c
<1>11. Spend(c, n) = Coin(S \ {n}, h) /\ Spend(c, n) \in Coins
  BY <1>5, <1>6, <1>7, <1>10, SpendCoin
<1>12. cacheCoins' \in Layer /\ TipCoins' = TipCoins
  BY <1>1, <1>2, LookedUp
<1>13. StoreRight'
  BY <1>1, <1>2, <1>12, StoreKept
<1>14. /\ view' \in Layer
       /\ Contents(ViewCoins)' = [Contents(ViewCoins) EXCEPT ![p] = Spend(c, n)]
       /\ view'[p] = Spend(c, n)
       /\ \A q \in Txs : q # p /\ q \notin {p} => view'[q] = view[q]
       /\ \A q \in Txs : view[q] # Absent => view'[q] # Absent
  BY <1>1, <1>2, <1>4, <1>11, <1>12, Changed
<1>15. SpentHeight(c, n) \in Nat
  BY <1>10, CoinFields DEF SpentHeight
<1>16. Applying' /\ pc' = "spend"
  BY <1>1 DEF Applying
<1>17. TypeOK'
  <2>1. blockundo \in [UndoIndex(block) -> Nat]
    BY <1>2 DEF TypeOK
  <2>2. blockundo' \in [UndoIndex(block) -> Nat]
    BY <1>1, <1>15, <2>1
  <2>3. nIn' \in Nat
    BY <1>1, <1>3
  <2> QED
    BY <1>1, <1>2, <1>12, <1>14, <1>16, <2>2, <2>3 DEF TypeOK, diskVars, boundVars
<1>18. UndoFunction' /\ UndoKept' /\ ValidNeverRefused'
  BY <1>1 DEF IInv, UndoFunction, UndoKept, ValidNeverRefused, diskVars
<1>19. Connecting'
  <2>1. Contents(ViewCoins)' = PartialUtxo(block, nTx, nIn + 1)
    BY <1>3, <1>6, <1>10, <1>14
  <2>2. /\ \A t \in Wrote(block, nTx, nIn + 1) : t \in Wrote(block, nTx, nIn) \/ t = p
        /\ p \in InBlock(block)
    <3>1. /\ block \in Blocks \ {Genesis} /\ nTx \in 1 .. Len(vtx[block])
          /\ nIn \in Nat /\ nIn < Len(vin[vtx[block][nTx]])
      BY <1>1, <1>3
    <3>2. PICK q : q = p /\ q = vin[vtx[block][nTx]][nIn + 1][1]
      BY DEF p, o
    <3>3. /\ \A t \in Wrote(block, nTx, nIn + 1) : t \in Wrote(block, nTx, nIn) \/ t = q
          /\ q \in InBlock(block)
      BY <3>1, <3>2, WroteInput
    <3> QED
      BY <3>2, <3>3
  <2>3. \A t \in Wrote(block, nTx, nIn + 1) : view'[t] # Absent
    <3>1. \A t \in Wrote(block, nTx, nIn) : view[t] # Absent /\ t \in Txs
      BY <1>2 DEF Connecting, Wrote
    <3> QED
      BY <1>11, <1>14, <2>2, <3>1, NotACoin
  <2>4. \A t \in Txs : view'[t] # Absent => t \in InBlock(block)
    BY <1>2, <1>14, <2>2 DEF Connecting
  <2>5. ASSUME NEW i \in 1 .. Len(vtx[block]), NEW j \in 1 .. Len(vin[vtx[block][i]]),
               i < nTx \/ (i = nTx /\ j <= nIn + 1)
        PROVE  blockundo'[<<i, j>>] = UndoEntry(block, i, j)
    <3>1. blockundo \in [UndoIndex(block) -> Nat]
      BY <1>2 DEF TypeOK
    <3>2. <<i, j>> \in UndoIndex(block)
      BY DEF UndoIndex
    <3>3. i < nTx \/ (i = nTx /\ j <= nIn) \/ (i = nTx /\ j = nIn + 1)
      BY <1>3, <2>5
    <3>4. CASE i = nTx /\ j = nIn + 1
      BY <1>1, <1>9, <1>10, <3>1, <3>2, <3>4
    <3>5. CASE ~(i = nTx /\ j = nIn + 1)
      <4>1. <<i, j>> # <<nTx, nIn + 1>>
        BY <3>5
      <4>2. blockundo'[<<i, j>>] = blockundo[<<i, j>>]
        BY <1>1, <3>1, <3>2, <4>1
      <4> QED
        BY <1>2, <3>3, <3>5, <4>2 DEF Connecting
    <3> QED
      BY <3>4, <3>5
  <2>6. nIn + 1 <= Len(vin[vtx[block][nTx]])
    BY <1>1, <1>3, TxFacts
  <2> QED
    BY <1>1, <1>3, <1>16, <2>1, <2>3, <2>4, <2>5, <2>6 DEF Connecting
<1> QED
  BY <1>13, <1>16, <1>17, <1>18, <1>19 DEF IInv

LEMMA AddOutputsStep ==
    ASSUME IInv, AddOutputs
    PROVE  IInv'
<1> DEFINE t == vtx[block][nTx]
           c == Coin(vout[t], Height[block])
<1>1. /\ pc = "spend" /\ nIn = Len(vin[t]) /\ Change({}, t, c)
      /\ nTx' = nTx + 1 /\ nIn' = 0
      /\ pc' = IF nTx = Len(vtx[block]) THEN "connected" ELSE "inputs"
      /\ UNCHANGED <<storeVars, diskVars, block, blockundo, fClean, boundVars>>
  BY DEF AddOutputs, tx
<1>2. TypeOK /\ StoreRight /\ Connecting /\ Applying
  BY <1>1 DEF IInv, Applying
<1>3. /\ block \in Blocks \ {Genesis} /\ Parent[block] = hashBlock
      /\ nTx \in 1 .. Len(vtx[block]) /\ nIn \in Nat /\ Checked(block, nTx) /\ Fresh(block)
      /\ Contents(ViewCoins) = PartialUtxo(block, nTx, nIn)
  BY <1>1, <1>2 DEF Connecting, TypeOK
<1>4. t \in Txs /\ Len(vin[t]) \in Nat
  BY <1>3, TxFacts
<1>5. /\ PartialUtxo(block, nTx + 1, 0) = [PartialUtxo(block, nTx, nIn) EXCEPT ![t] = c]
      /\ PartialUtxo(block, nTx + 1, 0)[t] = c
  BY <1>1, <1>3, PartialAdd
<1> HIDE DEF t, c
<1>6. c \in Coins
  BY <1>3, <1>4, <1>5, PartialIs
<1>7. cacheCoins' = cacheCoins /\ db' = db /\ hashBlock' = hashBlock /\ dbBest' = dbBest
      /\ TipCoins' = TipCoins
  BY <1>1 DEF storeVars, TipCoins
<1>8. StoreRight'
  BY <1>2, <1>7, StoreKept
<1>9. /\ view' \in Layer
      /\ Contents(ViewCoins)' = [Contents(ViewCoins) EXCEPT ![t] = c]
      /\ view'[t] = c
      /\ \A q \in Txs : q # t /\ q \notin {} => view'[q] = view[q]
      /\ \A q \in Txs : view[q] # Absent => view'[q] # Absent
  BY <1>1, <1>2, <1>4, <1>6, <1>7, Changed
<1>10. Applying' /\ pc' \in {"connected", "inputs"}
  BY <1>1 DEF Applying
<1>11. TypeOK'
  <2>1. nTx' \in Nat /\ nIn' \in Nat
    BY <1>1, <1>3
  <2> QED
    BY <1>1, <1>2, <1>7, <1>9, <1>10, <2>1 DEF TypeOK, diskVars, boundVars
<1>12. UndoFunction' /\ UndoKept' /\ ValidNeverRefused'
  BY <1>1, <1>7 DEF IInv, UndoFunction, UndoKept, ValidNeverRefused, diskVars
<1>13. Connecting'
  <2>1. Contents(ViewCoins)' = PartialUtxo(block, nTx + 1, 0)
    BY <1>3, <1>5, <1>9
  <2>2. /\ \A q \in Wrote(block, nTx + 1, 0) : q \in Wrote(block, nTx, nIn) \/ q = t
        /\ t \in InBlock(block)
    BY <1>1, <1>3, WroteOutputs DEF t
  <2>3. \A q \in Wrote(block, nTx + 1, 0) : view'[q] # Absent
    <3>1. \A q \in Wrote(block, nTx, nIn) : view[q] # Absent /\ q \in Txs
      BY <1>2 DEF Connecting, Wrote
    <3> QED
      BY <1>6, <1>9, <2>2, <3>1, NotACoin
  <2>4. \A q \in Txs : view'[q] # Absent => q \in InBlock(block)
    BY <1>2, <1>9, <2>2 DEF Connecting
  <2>5. ASSUME NEW i \in 1 .. Len(vtx[block]), NEW j \in 1 .. Len(vin[vtx[block][i]]),
               i < nTx + 1 \/ (i = nTx + 1 /\ j <= 0)
        PROVE  blockundo'[<<i, j>>] = UndoEntry(block, i, j)
    <3>1. i < nTx \/ (i = nTx /\ j <= nIn)
      BY <1>1, <1>3, <2>5, TxFacts DEF t
    <3> QED
      BY <1>1, <1>2, <3>1 DEF Connecting
  <2>6. Checked(block, (nTx + 1) - 1)
    BY <1>3
  <2>7. CASE nTx = Len(vtx[block])
    BY <1>1, <1>3, <1>7, <2>1, <2>3, <2>4, <2>5, <2>6, <2>7 DEF Connecting
  <2>8. CASE nTx # Len(vtx[block])
    <3>1. nTx + 1 \in 1 .. Len(vtx[block])
      BY <1>3, <2>8, BlockFacts
    <3> QED
      BY <1>1, <1>3, <1>7, <2>1, <2>3, <2>4, <2>5, <2>6, <2>8, <3>1 DEF Connecting
  <2> QED
    BY <2>7, <2>8
<1> QED
  BY <1>8, <1>10, <1>11, <1>12, <1>13 DEF IInv


LEMMA BlockConnectedStep ==
    ASSUME IInv, BlockConnected
    PROVE  IInv'
<1>1. /\ pc = "connected" /\ restarts' = restarts
      /\ TypeOK /\ StoreRight /\ Connecting /\ Applying /\ UndoFunction /\ UndoKept /\ ValidNeverRefused
  BY DEF BlockConnected, IInv, Applying
<1>2. /\ block \in Blocks \ {Genesis} /\ Parent[block] = hashBlock
      /\ nTx = Len(vtx[block]) + 1 /\ nIn = 0 /\ Fresh(block) /\ Checked(block, nTx - 1)
      /\ Contents(ViewCoins) = PartialUtxo(block, nTx, nIn)
  BY <1>1 DEF Connecting, TypeOK
<1>3. view \in Layer /\ cacheCoins \in Layer /\ db \in Layer
  BY <1>1, LayerTypes
<1>4. CASE /\ block \in BadBlocks /\ Refuse(block) /\ UNCHANGED <<storeVars, diskErrors>>
  <2>1. ~Valid(block)
    BY <1>4 DEF Valid
  <2>2. StoreRight' /\ cacheCoins' \in Layer
    BY <1>1, <1>3, <1>4 DEF StoreRight, storeVars, TipCoins, Contents
  <2> QED
    BY <1>1, <1>2, <1>4, <2>1, <2>2, RefuseKeeps DEF storeVars, boundVars
<1>5. CASE /\ block \notin BadBlocks /\ undo' = UndoWritten(block) /\ FlushView(block)
           /\ UNCHANGED <<db, dbBest, refused, diskErrors>>
  <2>1. /\ cacheCoins' = Over(view, cacheCoins) /\ hashBlock' = block /\ block' = block
        /\ view' = Empty /\ nTx' = 1 /\ nIn' = 0 /\ fClean' = TRUE /\ pc' = "write"
        /\ blockundo' = [ij \in UndoIndex(Genesis) |-> 0]
    BY <1>5 DEF FlushView, DropView
  <2>2. ~Applying' /\ pc' # "undo"
    BY <2>1 DEF Applying
  <2>3. Valid(block)
    <3>1. (Len(vtx[block]) + 1) - 1 = Len(vtx[block])
      BY <1>2, BlockFacts
    <3> QED
      BY <1>2, <1>5, <3>1, ValidMeans
  <2>4. StoreRight'
    <3>1. TipCoins' = ViewCoins
      BY <1>3, <1>5, <2>1, OverOver DEF TipCoins, ViewCoins
    <3>2. Contents(TipCoins)' = Utxo[block]
      BY <1>2, <2>3, <3>1, PartialEnd DEF Contents
    <3> QED
      BY <1>1, <1>5, <2>1, <3>2 DEF StoreRight, Contents
  <2>5. undo'[block] # NoUndo /\ UndoRight(block, undo'[block])
        /\ undo'[block] \in [UndoIndex(block) -> Nat]
        /\ DOMAIN undo' = Blocks /\ \A b \in Blocks : b # block => undo'[b] = undo[b]
    <3>1. CASE undo[block] = NoUndo
      <4>1. undo' = [undo EXCEPT ![block] = blockundo]
        BY <1>5, <3>1 DEF UndoWritten
      <4>2. undo'[block] = blockundo /\ DOMAIN undo' = Blocks
            /\ \A b \in Blocks : b # block => undo'[b] = undo[b]
        BY <1>1, <1>2, <4>1 DEF UndoFunction
      <4>3. blockundo \in [UndoIndex(block) -> Nat]
        BY <1>1 DEF TypeOK
      <4>4. blockundo # NoUndo
        BY <1>2, <4>3, UndoAssumption
      <4>5. UndoRight(block, blockundo)
        <5>1. \A i \in 1 .. Len(vtx[block]) : i < nTx
          BY <1>2, BlockFacts
        <5>2. \A i \in 1 .. Len(vtx[block]) : \A j \in 1 .. Len(vin[vtx[block][i]]) :
                  blockundo[<<i, j>>] = UndoEntry(block, i, j)
          BY <1>1, <5>1 DEF Connecting
        <5> QED
          BY <5>2 DEF UndoRight
      <4> QED
        BY <4>2, <4>3, <4>4, <4>5
    <3>2. CASE undo[block] # NoUndo
      <4>1. undo' = undo
        BY <1>5, <3>2 DEF UndoWritten
      <4> QED
        BY <1>1, <1>2, <3>2, <4>1 DEF UndoFunction, UndoKept, TypeOK
    <3> QED
      BY <3>1, <3>2
  <2>6. TypeOK'
    <3>1. Over(view, cacheCoins) \in Layer /\ Empty \in Layer
      BY <1>3, OverFacts, EmptyLayer
    <3>2. \A b \in Blocks : undo'[b] \in [UndoIndex(b) -> Nat] \cup {NoUndo}
      BY <1>1, <2>5 DEF TypeOK
    <3> QED
      BY <1>1, <1>2, <1>5, <2>1, <2>2, <3>1, <3>2 DEF TypeOK
  <2>7. UndoKept'
    <3>1. \A b \in Blocks : undo[b] # NoUndo => undo'[b] # NoUndo
      BY <2>5
    <3>2. hashBlock # Genesis => undo[hashBlock] # NoUndo /\ hashBlock \in Blocks
      BY <1>1 DEF UndoKept, TypeOK
    <3>3. Parent[block] # Genesis => undo'[Parent[block]] # NoUndo
      BY <1>2, <3>1, <3>2
    <3>4. ASSUME NEW b \in Blocks \ {Genesis}, undo'[b] # NoUndo
          PROVE  Valid(b) /\ UndoRight(b, undo'[b]) /\ (Parent[b] # Genesis => undo'[Parent[b]] # NoUndo)
      <4>1. CASE b = block
        BY <2>3, <2>5, <3>3, <4>1
      <4>2. CASE b # block
        <5>1. undo'[b] = undo[b] /\ undo[b] # NoUndo /\ Parent[b] \in Blocks
          BY <2>5, <3>4, <4>2, BlockFacts
        <5> QED
          BY <1>1, <3>1, <5>1 DEF UndoKept
      <4> QED
        BY <4>1, <4>2
    <3>5. dbBest' # Genesis => undo'[dbBest'] # NoUndo
      BY <1>1, <1>5, <3>1 DEF UndoKept, TypeOK
    <3> QED
      BY <2>1, <2>5, <3>4, <3>5 DEF UndoKept
  <2>8. UndoFunction' /\ ValidNeverRefused'
    BY <1>1, <1>5, <2>5 DEF UndoFunction, ValidNeverRefused
  <2> QED
    BY <2>1, <2>2, <2>4, <2>6, <2>7, <2>8 DEF IInv
<1>6. CASE /\ block \notin BadBlocks /\ undo[block] = NoUndo /\ diskErrors < MaxDiskErrors
           /\ diskErrors' = diskErrors + 1 /\ EndCall("dying") /\ UNCHANGED <<storeVars, diskVars>>
  <2>1. /\ StoreRight' /\ cacheCoins' \in Layer /\ db' \in Layer
        /\ hashBlock' = hashBlock /\ dbBest' = dbBest /\ undo' = undo
        /\ refused' \subseteq Blocks /\ ValidNeverRefused'
    BY <1>1, <1>3, <1>6 DEF StoreRight, storeVars, diskVars, TipCoins, Contents, TypeOK, ValidNeverRefused
  <2>2. restarts' \in 0 .. MaxRestarts /\ diskErrors' \in 0 .. MaxDiskErrors
    BY <1>1, <1>6, ParameterAssumption DEF TypeOK
  <2> QED
    BY <1>6, <2>1, <2>2, CallEnds
<1> QED
  BY <1>4, <1>5, <1>6 DEF BlockConnected


-----------------------------------------------------------------------------
(* The steps of DisconnectTip.                                              *)

LEMMA DisconnectBlockStep ==
    ASSUME IInv, DisconnectBlock
    PROVE  IInv'
<1>1. /\ pc = "idle" /\ hashBlock # Genesis /\ undo[hashBlock] # NoUndo
      /\ block' = hashBlock /\ nTx' = Len(vtx[hashBlock]) + 1 /\ nIn' = 0
      /\ fClean' = TRUE /\ pc' = "undo"
      /\ UNCHANGED <<view, storeVars, diskVars, blockundo, boundVars>>
  BY DEF DisconnectBlock
<1>2. TypeOK /\ StoreRight /\ UndoKept /\ view = Empty /\ hashBlock \in Blocks \ {Genesis}
  BY <1>1 DEF IInv, Applying, TypeOK
<1>3. ~Applying' /\ ~Applying /\ pc' = "undo"
  BY <1>1 DEF Applying
<1>4. Len(vtx[hashBlock]) \in Nat /\ Len(vtx[hashBlock]) > 0
  BY <1>2, BlockFacts
<1>5. TypeOK'
  BY <1>1, <1>2, <1>3, <1>4 DEF TypeOK, storeVars, diskVars, boundVars
<1>6. StoreRight' /\ UndoFunction' /\ UndoKept' /\ ValidNeverRefused'
  BY <1>1 DEF IInv, StoreRight, UndoFunction, UndoKept, ValidNeverRefused, storeVars, diskVars,
              TipCoins, Contents
<1>7. Disconnecting'
  <2>1. Contents(ViewCoins)' = PartialUtxo(hashBlock, Len(vtx[hashBlock]) + 1, 0)
    <3>1. view' = Empty /\ TipCoins' = TipCoins /\ TipCoins \in Layer
      BY <1>1, <1>2, LayerTypes DEF storeVars, TipCoins
    <3>2. ViewCoins' = TipCoins
      BY <3>1, EmptyLayer DEF ViewCoins
    <3>3. Contents(ViewCoins)' = Utxo[hashBlock]
      BY <1>2, <3>2 DEF StoreRight, Contents
    <3>4. Valid(hashBlock)
      BY <1>1, <1>2 DEF UndoKept
    <3> QED
      BY <1>2, <3>3, <3>4, PartialEnd
  <2>2. Unwrote(hashBlock, Len(vtx[hashBlock]) + 1, 0) = {}
    BY <1>2, WroteNothing
  <2>3. \A t \in Txs : view'[t] = Absent
    BY <1>1, <1>2 DEF Empty
  <2> QED
    BY <1>1, <1>2, <1>4, <2>1, <2>2, <2>3 DEF Disconnecting, storeVars
<1> QED
  BY <1>3, <1>5, <1>6, <1>7 DEF IInv

LEMMA RemoveOutputsStep ==
    ASSUME IInv, RemoveOutputs
    PROVE  IInv'
<1> DEFINE i == nTx - 1
           t == vtx[block][i]
           j == Len(vin[t])
           c == Content(ViewCoins[t])
<1>1. /\ pc = "undo" /\ nIn = 0 /\ nTx > 1
      /\ LookUp({t})
      /\ fClean' = (fClean /\ c = Coin(vout[t], Height[block]))
      /\ (ViewCoins[t] = Absent => view' = view)
      /\ (ViewCoins[t] # Absent => Change({t}, t, Pruned))
      /\ nIn' = j /\ nTx' = i
      /\ UNCHANGED <<hashBlock, db, dbBest, diskVars, block, blockundo, pc, boundVars>>
  BY DEF RemoveOutputs
<1>2. TypeOK /\ StoreRight /\ UndoKept /\ Disconnecting /\ ~Applying
  BY <1>1 DEF IInv, Applying
<1>3. /\ block \in Blocks \ {Genesis} /\ block = hashBlock /\ fClean
      /\ nTx \in 1 .. Len(vtx[block]) + 1
      /\ Contents(ViewCoins) = PartialUtxo(block, nTx, nIn)
  BY <1>2 DEF Disconnecting, TypeOK
<1>4. i \in 1 .. Len(vtx[block]) /\ nTx = i + 1
  BY <1>1, <1>3, BlockFacts
<1>5. t \in Txs /\ j \in Nat
  BY <1>3, <1>4, TxFacts
<1>6. Valid(block) /\ Fresh(block) /\ Checked(block, i)
  <2>1. Valid(block)
    BY <1>2, <1>3 DEF UndoKept
  <2> QED
    BY <1>3, <1>4, <2>1, BlockIsValid
<1>7. /\ PartialUtxo(block, i + 1, 0) = [PartialUtxo(block, i, j) EXCEPT ![t] = Coin(vout[t], Height[block])]
      /\ PartialUtxo(block, i + 1, 0)[t] = Coin(vout[t], Height[block])
      /\ PartialUtxo(block, i, j)[t] = Pruned
  BY <1>3, <1>4, <1>6, PartialAdd
<1> HIDE DEF i, t, j
<1>8. PartialUtxo(block, i, j) = [PartialUtxo(block, nTx, nIn) EXCEPT ![t] = Pruned]
  <2> DEFINE A == PartialUtxo(block, i, j)
             B == PartialUtxo(block, nTx, nIn)
             C == [B EXCEPT ![t] = Pruned]
  <2>1. /\ A = [q \in Txs |-> A[q]] /\ DOMAIN A = Txs
        /\ B = [q \in Txs |-> B[q]] /\ DOMAIN B = Txs
    BY <1>3, PartialType
  <2>2. B = [A EXCEPT ![t] = Coin(vout[t], Height[block])] /\ A[t] = Pruned
    BY <1>1, <1>4, <1>7
  <2> HIDE DEF A, B
  <2>3. \A q \in Txs : C[q] = A[q]
    BY <1>5, <2>1, <2>2
  <2>4. C = [q \in Txs |-> C[q]]
    BY <2>1
  <2> HIDE DEF C
  <2>5. A = C
    BY <2>1, <2>3, <2>4
  <2> QED
    BY <2>5 DEF A, B, C
<1>9. ViewCoins \in Layer /\ view \in Layer /\ cacheCoins \in Layer /\ db \in Layer
  BY <1>2, LayerTypes
<1>10. c = Coin(vout[t], Height[block])
  <2>1. Contents(ViewCoins)[t] = c
    BY <1>5, <1>9, ContentsType
  <2> QED
    BY <1>1, <1>3, <1>4, <1>7, <2>1
<1> HIDE DEF c
<1>11. cacheCoins' \in Layer /\ TipCoins' = TipCoins
       /\ \A q \in Txs : cacheCoins'[q] = Pruned <=> cacheCoins[q] = Pruned
  BY <1>1, <1>2, LookedUp
<1>12. StoreRight'
  BY <1>1, <1>2, <1>11, StoreKept
<1>13. /\ view' \in Layer
       /\ Contents(ViewCoins)' = PartialUtxo(block, i, j)
       /\ \A q \in Txs : q # t => view'[q] = view[q]
  <2>1. CASE ViewCoins[t] # Absent
    <3>1. /\ view' \in Layer
          /\ Contents(ViewCoins)' = [Contents(ViewCoins) EXCEPT ![t] = Pruned]
          /\ \A q \in Txs : q # t /\ q \notin {t} => view'[q] = view[q]
      BY <1>1, <1>2, <1>5, <1>11, <2>1, PrunedIsCoin, Changed
    <3> QED
      BY <1>3, <1>8, <3>1
  <2>2. CASE ViewCoins[t] = Absent
    <3>1. view' = view /\ ViewCoins' = ViewCoins
      BY <1>1, <1>11, <2>2 DEF ViewCoins
    <3>2. Contents(ViewCoins)' = Contents(ViewCoins)
      BY <3>1 DEF Contents
    <3>3. Contents(ViewCoins)[t] = Pruned
      BY <1>5, <1>9, <2>2, ContentsType DEF Content
    <3>4. [PartialUtxo(block, nTx, nIn) EXCEPT ![t] = Pruned] = PartialUtxo(block, nTx, nIn)
      <4> DEFINE B == PartialUtxo(block, nTx, nIn)
      <4>1. B = [q \in Txs |-> B[q]] /\ DOMAIN B = Txs /\ B[t] = Pruned
        BY <1>3, <3>3, PartialType
      <4> HIDE DEF B
      <4>2. [B EXCEPT ![t] = Pruned] = B
        BY <4>1
      <4> QED
        BY <4>2 DEF B
    <3> QED
      BY <1>3, <1>8, <1>9, <3>1, <3>2, <3>4
  <2> QED
    BY <2>1, <2>2
<1>14. view'[t] # Absent <=> vout[t] # {} \/ cacheCoins[t] = Pruned
  <2>1. CASE view[t] # Absent
    <3>1. ViewCoins[t] # Absent
      BY <1>5, <2>1 DEF ViewCoins, Over
    <3>2. view'[t] = Pruned
      BY <1>1, <1>2, <1>5, <1>11, <3>1, PrunedIsCoin, Changed
    <3>3. Entry(t)
      BY <1>2, <1>5, <2>1 DEF Disconnecting
    <3> QED
      BY <3>2, <3>3, PrunedIsCoin DEF Entry
  <2>2. CASE view[t] = Absent /\ ViewCoins[t] # Absent
    <3>1. view'[t] = Pruned
      <4>1. Change({t}, t, Pruned)
        BY <1>1, <2>2
      <4>2. TypeOK /\ TipCoins' = TipCoins /\ t \in Txs /\ Pruned \in Coins
        BY <1>2, <1>5, <1>11, PrunedIsCoin
      <4> QED
        BY <4>1, <4>2, Changed
    <3>2. ASSUME vout[t] = {} PROVE cacheCoins[t] = Pruned
      <4>1. Content(ViewCoins[t]) = Pruned
        BY <1>10, <3>2, CoinParts DEF c
      <4>2. ViewCoins[t] = Pruned
        BY <2>2, <4>1 DEF Content
      <4>3. (IF cacheCoins[t] # Absent THEN cacheCoins[t] ELSE db[t]) = Pruned
        BY <1>5, <2>2, <4>2 DEF ViewCoins, TipCoins, Over
      <4>4. db[t] # Pruned
        BY <1>2, <1>5 DEF StoreRight
      <4> QED
        BY <4>3, <4>4
    <3> QED
      BY <3>1, <3>2, PrunedIsCoin
  <2>3. CASE view[t] = Absent /\ ViewCoins[t] = Absent
    <3>1. view'[t] = Absent
      BY <1>1, <2>3
    <3>2. vout[t] = {}
      BY <1>10, <2>3, CoinParts DEF c, Content
    <3>3. cacheCoins[t] # Pruned
      <4>1. (IF cacheCoins[t] # Absent THEN cacheCoins[t] ELSE db[t]) = Absent
        BY <1>5, <2>3 DEF ViewCoins, TipCoins, Over
      <4> QED
        BY <4>1, PrunedIsCoin
    <3> QED
      BY <3>1, <3>2, <3>3
  <2> QED
    BY <2>1, <2>2, <2>3
<1>15. ~Applying' /\ pc' = "undo"
  BY <1>1 DEF Applying
<1>16. TypeOK'
  <2>1. nTx' \in Nat /\ nIn' \in Nat /\ fClean' \in BOOLEAN
    BY <1>1, <1>4, <1>5
  <2> QED
    BY <1>1, <1>2, <1>11, <1>13, <1>15, <2>1 DEF TypeOK, diskVars, boundVars
<1>17. UndoFunction' /\ UndoKept' /\ ValidNeverRefused'
  BY <1>1 DEF IInv, UndoFunction, UndoKept, ValidNeverRefused, diskVars
<1>18. Disconnecting'
  <2>1. fClean'
    BY <1>1, <1>3, <1>10
  <2>2. /\ \A q \in Unwrote(block, i, j) : q \in Unwrote(block, nTx, nIn) \/ q = t
        /\ t \in InBlock(block)
    BY <1>1, <1>3, <1>4, WroteOutputs DEF t, j
  <2>3. \A q \in Txs : Entry(q)' <=> Entry(q)
    BY <1>11 DEF Entry
  <2>4. \A q \in Unwrote(block, i, j) : Entry(q)' => view'[q] # Absent
    <3>1. \A q \in Unwrote(block, nTx, nIn) : q \in Txs /\ (Entry(q) => view[q] # Absent)
      BY <1>2 DEF Disconnecting, Unwrote
    <3> QED
      BY <1>5, <1>13, <1>14, <2>2, <2>3, <3>1 DEF Entry
  <2>5. \A q \in Txs : view'[q] # Absent => q \in InBlock(block) /\ Entry(q)'
    BY <1>2, <1>13, <1>14, <2>2, <2>3 DEF Disconnecting, Entry
  <2>6. nTx' \in 1 .. Len(vtx[block]) + 1 /\ nTx' # Len(vtx[block]) + 1 /\ nIn' <= Len(vin[vtx[block][nTx']])
    BY <1>1, <1>3, <1>4, <1>5, BlockFacts DEF j, t
  <2> QED
    BY <1>1, <1>3, <1>13, <2>1, <2>4, <2>5, <2>6 DEF Disconnecting
<1> QED
  BY <1>12, <1>15, <1>16, <1>17, <1>18 DEF IInv


LEMMA RestoreInputStep ==
    ASSUME IInv, RestoreInput
    PROVE  IInv'
<1> DEFINE j == nIn - 1
           o == vin[vtx[block][nTx]][j + 1]
           p == o[1]
           n == o[2]
           h == undo[block][<<nTx, nIn>>]
           c == Content(ViewCoins[p])
           S == Base(block, nTx, p) \ Spent(block, nTx, j, p)
           bh == BaseHeight(block, nTx, p)
<1>1. TypeOK /\ StoreRight /\ UndoKept /\ Disconnecting /\ ~Applying /\ pc = "undo" /\ nIn > 0
  BY DEF RestoreInput, IInv, Applying
<1>2. /\ block \in Blocks \ {Genesis} /\ block = hashBlock /\ fClean
      /\ nTx \in 1 .. Len(vtx[block]) /\ nIn <= Len(vin[vtx[block][nTx]]) /\ nIn \in Nat
      /\ Contents(ViewCoins) = PartialUtxo(block, nTx, nIn)
  <2>1. /\ block \in Blocks \ {Genesis} /\ block = hashBlock /\ fClean /\ nIn \in Nat
        /\ nTx \in 1 .. Len(vtx[block]) + 1
        /\ nTx = Len(vtx[block]) + 1 => nIn = 0
        /\ nTx # Len(vtx[block]) + 1 => nIn <= Len(vin[vtx[block][nTx]])
        /\ Contents(ViewCoins) = PartialUtxo(block, nTx, nIn)
    BY <1>1 DEF Disconnecting, TypeOK
  <2>2. nTx # Len(vtx[block]) + 1
    BY <1>1, <2>1
  <2> QED
    BY <2>1, <2>2, BlockFacts
<1>3. j \in Nat /\ j + 1 = nIn /\ j < Len(vin[vtx[block][nTx]])
  BY <1>1, <1>2, TxFacts
<1>4. Valid(block) /\ Checked(block, nTx)
  <2>1. Valid(block)
    BY <1>1, <1>2 DEF UndoKept
  <2> QED
    BY <1>2, <2>1, BlockIsValid
<1>5. /\ LookUp({p})
      /\ fClean' = (/\ fClean
                    /\ h # 0 <=> c = Pruned
                    /\ h # 0 \/ n \notin c.outs)
      /\ Change({p}, p, Restored(c, n, h))
      /\ nIn' = j
      /\ UNCHANGED <<hashBlock, db, dbBest, diskVars, block, nTx, blockundo, pc, boundVars>>
  <2>1. vin[tx][nIn] = o
    BY <1>3 DEF tx
  <2> QED
    BY <2>1 DEF RestoreInput
<1>6. p \in Txs /\ n \in S
  BY <1>2, <1>3, <1>4, InputThere
<1>7. /\ PartialUtxo(block, nTx, nIn)
            = [PartialUtxo(block, nTx, j) EXCEPT ![p] = Spend(PartialUtxo(block, nTx, j)[p], n)]
      /\ PartialUtxo(block, nTx, nIn)[p] = Coin(S \ {n}, bh)
  <2>1. /\ PartialUtxo(block, nTx, j + 1)
              = [PartialUtxo(block, nTx, j) EXCEPT ![p] = Spend(PartialUtxo(block, nTx, j)[p], n)]
        /\ PartialUtxo(block, nTx, j + 1)[p] = Coin(S \ {n}, bh)
    <3>1. /\ block \in Blocks \ {Genesis} /\ nTx \in 1 .. Len(vtx[block])
          /\ j \in Nat /\ j < Len(vin[vtx[block][nTx]])
      BY <1>2, <1>3
    <3> HIDE DEF j
    <3> QED
      BY <3>1, PartialSpend
  <2> QED
    BY <1>3, <2>1
<1>8. PartialUtxo(block, nTx, j)[p] = Coin(S, bh) /\ PartialUtxo(block, nTx, j)[p] \in Coins
  <2>1. block \in Blocks \ {Genesis} /\ p \in Txs
    BY <1>2, <1>6
  <2> HIDE DEF p, j
  <2> QED
    BY <2>1, PartialIs DEF S, bh
<1>9. bh # 0 /\ vout[p] # {}
  <2> HIDE DEF p, n
  <2>1. Base(block, nTx, p) # {} /\ Base(block, nTx, p) \subseteq vout[p]
        /\ (Base(block, nTx, p) # {} => bh # 0)
    BY <1>2, <1>6, BaseFacts DEF S, bh
  <2> QED
    BY <2>1
<1>10. h = SpentHeight(Coin(S, bh), n)
  <2>1. h = UndoEntry(block, nTx, nIn)
    <3>1. nIn \in 1 .. Len(vin[vtx[block][nTx]])
      BY <1>1, <1>2, <1>3, TxFacts
    <3>2. UndoRight(block, undo[block])
      BY <1>1, <1>2 DEF UndoKept
    <3> QED
      BY <1>2, <3>1, <3>2 DEF UndoRight
  <2>2. nIn - 1 = j /\ vin[vtx[block][nTx]][nIn] = o
    BY <1>3
  <2>3. UndoEntry(block, nTx, nIn) = SpentHeight(PartialUtxo(block, nTx, j)[p], n)
    BY <2>2 DEF UndoEntry
  <2> QED
    BY <1>8, <2>1, <2>3
<1> HIDE DEF o, p, n, h, S, bh, j
<1>11. c = Coin(S \ {n}, bh)
  <2>1. ViewCoins \in Layer
    BY <1>1, LayerTypes
  <2>2. Contents(ViewCoins)[p] = Content(ViewCoins[p])
    BY <1>6, <2>1, ContentsType
  <2> QED
    BY <1>2, <1>7, <2>2
<1> HIDE DEF c
<1>12. /\ Restored(c, n, h) = Coin(S, bh)
       /\ h # 0 <=> c = Pruned
       /\ n \notin c.outs
  BY <1>6, <1>9, <1>10, <1>11, RestoreCoin
<1>13. Restored(c, n, h) \in Coins
  BY <1>8, <1>12
<1>14. cacheCoins' \in Layer /\ TipCoins' = TipCoins
       /\ \A q \in Txs : cacheCoins'[q] = Pruned <=> cacheCoins[q] = Pruned
  BY <1>1, <1>5, LookedUp
<1>15. StoreRight'
  BY <1>1, <1>5, <1>14, StoreKept
<1>16. /\ view' \in Layer
       /\ Contents(ViewCoins)' = [Contents(ViewCoins) EXCEPT ![p] = Restored(c, n, h)]
       /\ view'[p] = Restored(c, n, h)
       /\ \A q \in Txs : q # p /\ q \notin {p} => view'[q] = view[q]
       /\ \A q \in Txs : view[q] # Absent => view'[q] # Absent
  BY <1>1, <1>5, <1>6, <1>13, <1>14, Changed
<1>17. Contents(ViewCoins)' = PartialUtxo(block, nTx, j)
  <2> DEFINE A == PartialUtxo(block, nTx, j)
             B == PartialUtxo(block, nTx, nIn)
             C == [B EXCEPT ![p] = Coin(S, bh)]
  <2>1. A = [q \in Txs |-> A[q]] /\ DOMAIN A = Txs /\ DOMAIN B = Txs
    BY <1>2, PartialType
  <2>2. A[p] = Coin(S, bh) /\ \A q \in Txs : q # p => B[q] = A[q]
    <3>1. A[p] = Coin(S, bh) /\ B = [A EXCEPT ![p] = Spend(A[p], n)]
      BY <1>7, <1>8
    <3> HIDE DEF A, B
    <3> QED
      BY <2>1, <3>1
  <2> HIDE DEF A, B
  <2>3. \A q \in Txs : C[q] = A[q]
    BY <1>6, <2>1, <2>2
  <2>4. C = [q \in Txs |-> C[q]]
    BY <2>1
  <2> HIDE DEF C
  <2>5. A = C
    BY <2>1, <2>3, <2>4
  <2> QED
    BY <1>2, <1>12, <1>16, <2>5 DEF A, B, C
<1>18. ~Applying' /\ pc' = "undo"
  BY <1>1, <1>5 DEF Applying
<1>19. TypeOK'
  <2>1. nIn' \in Nat /\ fClean' \in BOOLEAN
    BY <1>3, <1>5
  <2> QED
    BY <1>1, <1>5, <1>14, <1>16, <1>18, <2>1 DEF TypeOK, diskVars, boundVars
<1>20. UndoFunction' /\ UndoKept' /\ ValidNeverRefused'
  BY <1>5 DEF IInv, UndoFunction, UndoKept, ValidNeverRefused, diskVars
<1>21. Disconnecting'
  <2>1. fClean'
    BY <1>2, <1>5, <1>12
  <2>2. /\ \A q \in Unwrote(block, nTx, j) : q \in Unwrote(block, nTx, nIn) \/ q = p
        /\ p \in InBlock(block)
    BY <1>2, <1>3, WroteInput DEF o, p
  <2>3. \A q \in Txs : Entry(q)' <=> Entry(q)
    BY <1>14 DEF Entry
  <2>4. view'[p] # Absent /\ Entry(p)
    BY <1>9, <1>13, <1>16, NotACoin DEF Entry
  <2>5. \A q \in Unwrote(block, nTx, j) : Entry(q)' => view'[q] # Absent
    <3>1. \A q \in Unwrote(block, nTx, nIn) : q \in Txs /\ (Entry(q) => view[q] # Absent)
      BY <1>1 DEF Disconnecting, Unwrote
    <3> QED
      BY <1>6, <1>16, <2>2, <2>3, <2>4, <3>1
  <2>6. \A q \in Txs : view'[q] # Absent => q \in InBlock(block) /\ Entry(q)'
    BY <1>1, <1>16, <2>2, <2>3, <2>4 DEF Disconnecting
  <2>7. nTx \in 1 .. Len(vtx[block]) + 1 /\ nTx # Len(vtx[block]) + 1
        /\ nIn' <= Len(vin[vtx[block][nTx]])
    BY <1>2, <1>3, <1>5, BlockFacts, TxFacts
  <2> QED
    BY <1>2, <1>5, <1>17, <2>1, <2>5, <2>6, <2>7 DEF Disconnecting
<1> QED
  BY <1>15, <1>18, <1>19, <1>20, <1>21 DEF IInv


LEMMA BlockDisconnectedStep ==
    ASSUME IInv, BlockDisconnected
    PROVE  IInv'
<1>1. /\ pc = "undo" /\ nTx = 1 /\ nIn = 0
      /\ TypeOK /\ StoreRight /\ UndoKept /\ Disconnecting /\ UndoFunction /\ ValidNeverRefused
      /\ UNCHANGED <<db, dbBest, diskVars, boundVars>>
  BY DEF BlockDisconnected, IInv
<1>2. /\ block \in Blocks \ {Genesis} /\ block = hashBlock /\ fClean
      /\ Contents(ViewCoins) = PartialUtxo(block, 1, 0)
  BY <1>1 DEF Disconnecting, TypeOK
<1>3. FlushView(Parent[block])
  BY <1>2 DEF BlockDisconnected
<1>4. /\ cacheCoins' = Over(view, cacheCoins) /\ hashBlock' = Parent[block] /\ block' = block
      /\ view' = Empty /\ nTx' = 1 /\ nIn' = 0 /\ fClean' = TRUE /\ pc' = "write"
      /\ blockundo' = [ij \in UndoIndex(Genesis) |-> 0]
  BY <1>3 DEF FlushView, DropView
<1>5. ~Applying' /\ pc' # "undo"
  BY <1>4 DEF Applying
<1>6. view \in Layer /\ cacheCoins \in Layer /\ db \in Layer
  BY <1>1, LayerTypes
<1>7. StoreRight'
  <2>1. TipCoins' = ViewCoins
    BY <1>1, <1>4, <1>6, OverOver DEF TipCoins, ViewCoins
  <2>2. Contents(TipCoins)' = Utxo[Parent[block]]
    BY <1>2, <2>1, PartialStart DEF Contents
  <2> QED
    BY <1>1, <1>4, <2>2 DEF StoreRight, Contents
<1>8. TypeOK'
  <2>1. Over(view, cacheCoins) \in Layer /\ Empty \in Layer /\ Parent[block] \in Blocks
    BY <1>2, <1>6, OverFacts, EmptyLayer, BlockFacts
  <2> QED
    BY <1>1, <1>4, <1>5, <2>1 DEF TypeOK, diskVars, boundVars
<1>9. UndoKept'
  <2>1. undo[block] # NoUndo
    BY <1>1, <1>2 DEF UndoKept
  <2>2. Parent[block] # Genesis => undo[Parent[block]] # NoUndo
    BY <1>1, <1>2, <2>1 DEF UndoKept
  <2> QED
    BY <1>1, <1>4, <2>2 DEF UndoKept, diskVars
<1>10. UndoFunction' /\ ValidNeverRefused'
  BY <1>1 DEF UndoFunction, ValidNeverRefused, diskVars
<1> QED
  BY <1>4, <1>5, <1>7, <1>8, <1>9, <1>10 DEF IInv

-----------------------------------------------------------------------------
(* Flushing, dying and starting again.                                      *)

LEMMA FlushFacts ==
    ASSUME IInv, Flush
    PROVE  /\ cacheCoins' = Empty /\ dbBest' = hashBlock
           /\ cacheCoins' \in Layer /\ db' \in Layer
           /\ Contents(db)' = Contents(TipCoins)
           /\ Contents(TipCoins)' = Contents(TipCoins)
           /\ \A t \in Txs : db'[t] # Pruned
<1>1. view \in Layer /\ cacheCoins \in Layer /\ db \in Layer /\ \A t \in Txs : db[t] # Pruned
  BY LayerTypes DEF IInv, StoreRight
<1>2. db' = BatchWrite(cacheCoins, db) /\ dbBest' = hashBlock /\ cacheCoins' = Empty
  BY DEF Flush
<1>3. /\ db' \in Layer /\ \A t \in Txs : db'[t] # Pruned
      /\ Contents(db') = Contents(Over(cacheCoins, db))
  <2> DEFINE W == BatchWrite(cacheCoins, db)
  <2>1. /\ W \in Layer /\ \A t \in Txs : W[t] # Pruned
        /\ Contents(W) = Contents(Over(cacheCoins, db))
    BY <1>1, WriteFacts
  <2> HIDE DEF W
  <2>2. db' = W
    BY <1>2 DEF W
  <2> QED
    BY <2>1, <2>2
<1>4. Contents(db)' = Contents(TipCoins)
  BY <1>3 DEF Contents, TipCoins
<1>5. TipCoins' = db' /\ cacheCoins' \in Layer
  BY <1>2, <1>3, EmptyLayer DEF TipCoins
<1>6. Contents(TipCoins)' = Contents(TipCoins)
  BY <1>4, <1>5 DEF Contents
<1> QED
  BY <1>2, <1>3, <1>4, <1>5, <1>6

LEMMA WriteChainStateStep ==
    ASSUME IInv, WriteChainState
    PROVE  IInv'
<1>1. /\ pc = "write" /\ UNCHANGED <<hashBlock, diskVars, restarts>>
      /\ TypeOK /\ StoreRight /\ UndoKept /\ UndoFunction /\ ValidNeverRefused
      /\ view = Empty /\ ~Applying
  BY DEF WriteChainState, IInv, Applying
<1>2. CASE Flush /\ pc' = "updated" /\ UNCHANGED <<callVars, view, diskErrors>>
  <2>1. ~Applying' /\ pc' # "undo"
    BY <1>2 DEF Applying
  <2>2. StoreRight'
    BY <1>1, <1>2, FlushFacts DEF StoreRight
  <2>3. TypeOK'
    BY <1>1, <1>2, <2>1, FlushFacts DEF TypeOK, callVars, diskVars
  <2>4. UndoKept' /\ UndoFunction' /\ ValidNeverRefused'
    BY <1>1, <1>2, FlushFacts DEF UndoKept, UndoFunction, ValidNeverRefused, diskVars
  <2> QED
    BY <1>1, <1>2, <2>1, <2>2, <2>3, <2>4 DEF IInv
<1>3. CASE pc' = "updated" /\ UNCHANGED <<cacheCoins, db, dbBest, callVars, view, diskErrors>>
  <2>1. ~Applying' /\ pc' # "undo"
    BY <1>3 DEF Applying
  <2>2. StoreRight'
    BY <1>1, <1>3 DEF StoreRight, TipCoins, Contents
  <2>3. TypeOK'
    BY <1>1, <1>3, <2>1 DEF TypeOK, callVars, diskVars
  <2>4. UndoKept' /\ UndoFunction' /\ ValidNeverRefused'
    BY <1>1, <1>3 DEF UndoKept, UndoFunction, ValidNeverRefused, diskVars
  <2> QED
    BY <1>1, <1>3, <2>1, <2>2, <2>3, <2>4 DEF IInv
<1>4. CASE /\ diskErrors < MaxDiskErrors /\ diskErrors' = diskErrors + 1
           /\ EndCall("dying") /\ UNCHANGED <<cacheCoins, db, dbBest>>
  <2>1. /\ StoreRight' /\ cacheCoins' \in Layer /\ db' \in Layer
        /\ hashBlock' = hashBlock /\ dbBest' = dbBest /\ undo' = undo
        /\ refused' \subseteq Blocks /\ ValidNeverRefused'
    BY <1>1, <1>4 DEF StoreRight, diskVars, TipCoins, Contents, TypeOK, ValidNeverRefused
  <2>2. restarts' \in 0 .. MaxRestarts /\ diskErrors' \in 0 .. MaxDiskErrors
    BY <1>1, <1>4, ParameterAssumption DEF TypeOK
  <2> QED
    BY <1>4, <2>1, <2>2, CallEnds
<1> QED
  BY <1>2, <1>3, <1>4 DEF WriteChainState

LEMMA UpdateTipStep ==
    ASSUME IInv, UpdateTip
    PROVE  IInv'
<1>1. /\ EndCall("idle") /\ UNCHANGED <<storeVars, diskVars, boundVars>>
      /\ TypeOK /\ StoreRight /\ ValidNeverRefused
  BY DEF UpdateTip, IInv
<1>2. /\ StoreRight' /\ cacheCoins' \in Layer /\ db' \in Layer
      /\ hashBlock' = hashBlock /\ dbBest' = dbBest /\ undo' = undo
      /\ refused' \subseteq Blocks /\ ValidNeverRefused'
      /\ restarts' \in 0 .. MaxRestarts /\ diskErrors' \in 0 .. MaxDiskErrors
  BY <1>1 DEF StoreRight, storeVars, diskVars, boundVars, TipCoins, Contents, TypeOK, ValidNeverRefused
<1> QED
  BY <1>1, <1>2, CallEnds

LEMMA ShutdownStep ==
    ASSUME IInv, Shutdown
    PROVE  IInv'
<1>1. /\ restarts < MaxRestarts /\ Flush /\ EndCall("down") /\ restarts' = restarts + 1
      /\ UNCHANGED <<hashBlock, diskVars, diskErrors>>
      /\ TypeOK /\ StoreRight /\ ValidNeverRefused
  BY DEF Shutdown, IInv
<1>2. StoreRight'
  BY <1>1, FlushFacts DEF StoreRight
<1>3. /\ cacheCoins' \in Layer /\ db' \in Layer
      /\ hashBlock' = hashBlock /\ dbBest' = hashBlock /\ undo' = undo
      /\ refused' \subseteq Blocks /\ ValidNeverRefused'
  BY <1>1, FlushFacts DEF diskVars, TypeOK, ValidNeverRefused
<1>4. restarts' \in 0 .. MaxRestarts /\ diskErrors' \in 0 .. MaxDiskErrors
  BY <1>1, ParameterAssumption DEF TypeOK
<1> QED
  BY <1>1, <1>2, <1>3, <1>4, CallEnds

LEMMA CrashStep ==
    ASSUME IInv, Crash
    PROVE  IInv'
<1>1. /\ restarts < MaxRestarts /\ EndCall("down") /\ restarts' = restarts + 1
      /\ UNCHANGED <<storeVars, diskVars, diskErrors>>
      /\ TypeOK /\ StoreRight /\ ValidNeverRefused
  BY DEF Crash, IInv
<1>2. /\ StoreRight' /\ cacheCoins' \in Layer /\ db' \in Layer
      /\ hashBlock' = hashBlock /\ dbBest' = dbBest /\ undo' = undo
      /\ refused' \subseteq Blocks /\ ValidNeverRefused'
  BY <1>1 DEF StoreRight, storeVars, diskVars, TipCoins, Contents, TypeOK, ValidNeverRefused
<1>3. restarts' \in 0 .. MaxRestarts /\ diskErrors' \in 0 .. MaxDiskErrors
  BY <1>1, ParameterAssumption DEF TypeOK
<1> QED
  BY <1>1, <1>2, <1>3, CallEnds

LEMMA RestartStep ==
    ASSUME IInv, Restart
    PROVE  IInv'
<1>1. /\ pc = "down" /\ cacheCoins' = Empty /\ hashBlock' = dbBest /\ pc' = "idle"
      /\ UNCHANGED <<view, db, dbBest, diskVars, callVars, boundVars>>
      /\ TypeOK /\ StoreRight /\ UndoKept /\ UndoFunction /\ ValidNeverRefused
      /\ view = Empty /\ ~Applying
  BY DEF Restart, IInv, Applying
<1>2. ~Applying' /\ pc' # "undo"
  BY <1>1 DEF Applying
<1>3. db \in Layer /\ cacheCoins' \in Layer /\ TipCoins' = db
  BY <1>1, LayerTypes, EmptyLayer DEF TipCoins
<1>4. StoreRight'
  BY <1>1, <1>3 DEF StoreRight, Contents
<1>5. TypeOK'
  BY <1>1, <1>2, <1>3 DEF TypeOK, diskVars, callVars, boundVars
<1>6. UndoKept' /\ UndoFunction' /\ ValidNeverRefused'
  BY <1>1 DEF UndoKept, UndoFunction, ValidNeverRefused, diskVars
<1> QED
  BY <1>1, <1>2, <1>4, <1>5, <1>6 DEF IInv

LEMMA CoinsStart ==
    ASSUME Init
    PROVE  IInv
<1>1. ~Applying /\ pc # "undo" /\ view = Empty
  BY DEF Init, Applying
<1>2. Empty \in Layer /\ Over(Empty, Empty) = Empty /\ Genesis \in Blocks
  BY EmptyLayer, TreeAssumption DEF Empty, Layer
<1>3. TypeOK
  BY <1>1, <1>2, ParameterAssumption DEF Init, TypeOK
<1>4. StoreRight
  <2>1. Contents(Empty) = Utxo[Genesis]
    <3>1. Utxo[Genesis] = [t \in Txs |-> Utxo[Genesis][t]]
      BY <1>2, UtxoAssumption
    <3>2. \A t \in Txs : Content(Empty[t]) = Utxo[Genesis][t]
      BY UtxoAssumption DEF Empty, Content
    <3> QED
      BY <3>1, <3>2 DEF Contents
  <2>2. TipCoins = Empty /\ db = Empty /\ hashBlock = Genesis /\ dbBest = Genesis
    BY <1>2 DEF Init, TipCoins
  <2>3. \A t \in Txs : Empty[t] # Pruned
    BY PrunedIsCoin DEF Empty
  <2> QED
    BY <2>1, <2>2, <2>3 DEF StoreRight
<1>5. UndoFunction /\ UndoKept /\ ValidNeverRefused
  BY DEF Init, UndoFunction, UndoKept, ValidNeverRefused
<1> QED
  BY <1>1, <1>3, <1>4, <1>5 DEF IInv

LEMMA CoinsStep ==
    ASSUME IInv, [Next]_vars
    PROVE  IInv'
<1>1. CASE UNCHANGED vars
  BY <1>1 DEF vars, storeVars, diskVars, callVars, boundVars, IInv, TypeOK, UndoFunction, StoreRight,
              TipCoins, Contents, UndoKept, ValidNeverRefused, Applying, Connecting, ViewCoins,
              Disconnecting, Entry
<1>2. CASE Next
  BY <1>2, ConnectBlockStep, CheckInputsStep, SpendInputStep, AddOutputsStep, BlockConnectedStep,
     DisconnectBlockStep, RemoveOutputsStep, RestoreInputStep, BlockDisconnectedStep,
     WriteChainStateStep, UpdateTipStep, ShutdownStep, CrashStep, RestartStep DEF Next
<1> QED
  BY <1>1, <1>2

(* The inductive invariant: the cache and the database each hold the coins  *)
(* of a chain of valid blocks whose undo data is right, and the view of a   *)
(* running call those of the part of its block that is applied.             *)
THEOREM CoinsInvariant == Spec => []IInv
<1>1. Init => IInv
  BY CoinsStart
<1>2. IInv /\ [Next]_vars => IInv'
  BY CoinsStep
<1> QED
  BY <1>1, <1>2, PTL DEF Spec

(* Every variable of the layers keeps its type.                             *)
THEOREM CoinsTypes == Spec => []TypeOK
<1>1. IInv => TypeOK
  BY DEF IInv
<1> QED
  BY <1>1, CoinsInvariant, PTL

(* ConnectBlock and DisconnectBlock work on exactly the coins of the chain  *)
(* so far, whatever the age of the cache and the database beneath.          *)
THEOREM AlwaysViewExact == Spec => []ViewExact
<1>1. IInv => ViewExact
  BY CallRight
<1> QED
  BY <1>1, CoinsInvariant, PTL

(* DisconnectBlock finds the outputs and the undo data as the block left    *)
(* them, and no tip, in memory or on disk, is without undo data.            *)
THEOREM AlwaysCleanDisconnect == Spec => []CleanDisconnect
<1>1. IInv => CleanDisconnect
  BY CallRight
<1> QED
  BY <1>1, CoinsInvariant, PTL

(* InvalidBlockFound never marks a block that keeps the rules.              *)
THEOREM AlwaysValidNeverRefused == Spec => []ValidNeverRefused
<1>1. IInv => ValidNeverRefused
  BY DEF IInv
<1> QED
  BY <1>1, CoinsInvariant, PTL


-----------------------------------------------------------------------------
(* The ledger.                                                              *)

Emptied == {t \in Txs : cacheCoins[t] = Pruned}

LEMMA TouchedIs ==
    ASSUME NEW b \in Blocks \ {Genesis}
    PROVE  L!Touched(b) = InBlock(b)
<1>1. \A k \in 1 .. Len(vtx[b]) : k < Len(vtx[b]) + 1
  BY BlockFacts
<1>2. \A k \in 1 .. Len(vtx[b]) : /\ vtx[b][k] \in Txs
                                  /\ \A m \in 1 .. Len(vin[vtx[b][k]]) : vin[vtx[b][k]][m][1] \in Txs
  BY TxFacts
<1>3. \A t : t \in L!Touched(b) <=> \E k \in 1 .. Len(vtx[b]) :
                 vtx[b][k] = t \/ \E m \in 1 .. Len(vin[vtx[b][k]]) : vin[vtx[b][k]][m][1] = t
  BY DEF L!Touched
<1>4. \A t : t \in InBlock(b) <=> t \in Txs /\ \E k \in 1 .. Len(vtx[b]) :
                 vtx[b][k] = t \/ \E m \in 1 .. Len(vin[vtx[b][k]]) : vin[vtx[b][k]][m][1] = t
  BY <1>1 DEF InBlock, Wrote
<1> QED
  BY <1>2, <1>3, <1>4

LEMMA LedgerValid ==
    ASSUME NEW b
    PROVE  L!Valid(b) <=> Valid(b)
BY DEF L!Valid, Valid, L!InputsOK, InputsOK, L!PartialUtxo, PartialUtxo, L!Coin, Coin, L!Pruned, Pruned,
       L!Created, Created, L!Spent, Spent, L!GetCoinbaseMaturity, GetCoinbaseMaturity

LEMMA LedgerStutters ==
    ASSUME Contents(TipCoins)' = Contents(TipCoins), Contents(db)' = Contents(db),
           UNCHANGED <<hashBlock, dbBest>>, Emptied' = Emptied
    PROVE  UNCHANGED L!ledgerVars
BY DEF L!ledgerVars, Emptied

LEMMA LooksUp ==
    ASSUME IInv, NEW ts, LookUp(ts), UNCHANGED <<hashBlock, db, dbBest>>
    PROVE  UNCHANGED L!ledgerVars
<1>1. TipCoins' = TipCoins /\ Emptied' = Emptied
  BY LookedUp DEF IInv, Emptied
<1>2. Contents(TipCoins)' = Contents(TipCoins) /\ Contents(db)' = Contents(db)
  BY <1>1 DEF Contents
<1> QED
  BY <1>1, <1>2, LedgerStutters

LEMMA StoresStand ==
    ASSUME UNCHANGED <<cacheCoins, hashBlock, db, dbBest>>
    PROVE  UNCHANGED L!ledgerVars
<1>1. Contents(TipCoins)' = Contents(TipCoins) /\ Contents(db)' = Contents(db) /\ Emptied' = Emptied
  BY DEF Contents, TipCoins, Emptied
<1> QED
  BY <1>1, LedgerStutters


LEMMA EmptiedNone ==
    ASSUME cacheCoins' = Empty
    PROVE  Emptied' = {}
BY PrunedIsCoin DEF Emptied, Empty

(* The entries that a finished call leaves in the cache.                    *)
LEMMA EmptiedMoves ==
    ASSUME TypeOK, cacheCoins' = Over(view, cacheCoins), NEW b \in Blocks \ {Genesis},
           Contents(ViewCoins) = Utxo[b],
           NEW touched, touched = {t \in Txs : view[t] # Absent}
    PROVE  Emptied' = (Emptied \ touched) \cup {t \in touched : Utxo[b][t] = Pruned}
<1>1. \A t \in Txs : cacheCoins'[t] = IF view[t] # Absent THEN view[t] ELSE cacheCoins[t]
  BY DEF Over
<1>2. ViewCoins \in Layer
  BY LayerTypes
<1>3. \A t \in Txs : Utxo[b][t] = Content(ViewCoins[t])
  BY <1>2, ContentsType
<1>4. \A t \in Txs : view[t] # Absent => ViewCoins[t] = view[t]
  BY DEF ViewCoins, Over
<1>5. \A t \in Txs : view[t] # Absent => Utxo[b][t] = view[t]
  BY <1>3, <1>4 DEF Content
<1> QED
  BY <1>1, <1>5 DEF Emptied

LEMMA Connects ==
    ASSUME IInv, BlockConnected
    PROVE  [L!LedgerNext]_(L!ledgerVars)
<1>1. /\ pc = "connected"
      /\ TypeOK /\ StoreRight /\ Connecting /\ IInv'
  BY BlockConnectedStep DEF BlockConnected, IInv, Applying
<1>2. /\ block \in Blocks \ {Genesis} /\ Parent[block] = hashBlock
      /\ nTx = Len(vtx[block]) + 1 /\ nIn = 0 /\ Fresh(block) /\ Checked(block, nTx - 1)
      /\ Contents(ViewCoins) = PartialUtxo(block, nTx, nIn)
  BY <1>1 DEF Connecting, TypeOK
<1>3. CASE /\ block \notin BadBlocks /\ undo' = UndoWritten(block) /\ FlushView(block)
           /\ UNCHANGED <<db, dbBest, refused, diskErrors>>
  <2>1. /\ cacheCoins' = Over(view, cacheCoins) /\ hashBlock' = block
    BY <1>3 DEF FlushView, DropView
  <2>2. Valid(block)
    <3>1. (Len(vtx[block]) + 1) - 1 = Len(vtx[block])
      BY <1>2, BlockFacts
    <3> QED
      BY <1>2, <1>3, <3>1, ValidMeans
  <2>3. Contents(ViewCoins) = Utxo[block]
    BY <1>2, <2>2, PartialEnd
  <2>4. Contents(TipCoins)' = Utxo[block]
    BY <1>1, <2>1 DEF IInv, StoreRight
  <2>5. {t \in Txs : view[t] # Absent} = L!Touched(block)
    <3>1. \A t \in Txs : view[t] # Absent => t \in InBlock(block)
      BY <1>1 DEF Connecting
    <3>2. \A t \in InBlock(block) : t \in Txs /\ view[t] # Absent
      BY <1>1, <1>2 DEF Connecting, InBlock, Wrote
    <3> QED
      BY <1>2, <3>1, <3>2, TouchedIs
  <2>6. Emptied' = (Emptied \ L!Touched(block)) \cup {t \in L!Touched(block) : Utxo[block][t] = Pruned}
    BY <1>1, <1>2, <2>1, <2>3, <2>5, EmptiedMoves
  <2>7. Contents(db)' = Contents(db)
    BY <1>3 DEF Contents
  <2>8. PICK b \in Blocks \ {Genesis} : b = block
    BY <1>2
  <2>9. L!MoveTo(b, L!Touched(b))
    BY <1>3, <2>1, <2>4, <2>6, <2>7, <2>8 DEF L!MoveTo, Emptied, L!Pruned, Pruned
  <2>10. L!Connect(b)
    BY <1>2, <2>2, <2>8, <2>9, LedgerValid DEF L!Connect
  <2> QED
    BY <2>8, <2>10 DEF L!LedgerNext
<1>4. CASE UNCHANGED storeVars
  BY <1>4, StoresStand DEF storeVars
<1> QED
  BY <1>3, <1>4 DEF BlockConnected

LEMMA Disconnects ==
    ASSUME IInv, BlockDisconnected
    PROVE  [L!LedgerNext]_(L!ledgerVars)
<1>1. /\ pc = "undo" /\ nTx = 1 /\ nIn = 0
      /\ TypeOK /\ StoreRight /\ UndoKept /\ Disconnecting /\ IInv'
      /\ UNCHANGED <<db, dbBest>>
  BY BlockDisconnectedStep DEF BlockDisconnected, IInv
<1>2. /\ block \in Blocks \ {Genesis} /\ block = hashBlock /\ fClean
      /\ Contents(ViewCoins) = PartialUtxo(block, 1, 0)
  BY <1>1 DEF Disconnecting, TypeOK
<1>3. cacheCoins' = Over(view, cacheCoins) /\ hashBlock' = Parent[block]
  BY <1>2 DEF BlockDisconnected, FlushView, DropView
<1> DEFINE touched == {t \in Txs : view[t] # Absent}
           left == {t \in Txs : vout[t] = {} /\ t \notin Emptied}
<1>4. touched = L!Touched(hashBlock) \ left
  <2>1. \A t \in Txs : view[t] # Absent => t \in InBlock(block) /\ Entry(t)
    BY <1>1 DEF Disconnecting
  <2>2. \A t \in InBlock(block) : t \in Txs /\ (Entry(t) => view[t] # Absent)
    BY <1>1, <1>2, UnwroteAll DEF Disconnecting, InBlock, Wrote
  <2>3. \A t \in Txs : t \in left <=> ~Entry(t)
    BY DEF Entry, Emptied
  <2> QED
    BY <1>2, <2>1, <2>2, <2>3, TouchedIs
<1>5. Contents(ViewCoins) = Utxo[Parent[block]]
  BY <1>2, PartialStart
<1>6. Contents(TipCoins)' = Utxo[Parent[block]]
  BY <1>1, <1>3 DEF IInv, StoreRight
<1>7. Emptied' = (Emptied \ touched) \cup {t \in touched : Utxo[Parent[block]][t] = Pruned}
  <2>1. \A t \in Txs : cacheCoins'[t] = IF view[t] # Absent THEN view[t] ELSE cacheCoins[t]
    BY <1>3 DEF Over
  <2>2. ViewCoins \in Layer
    BY <1>1, LayerTypes
  <2>3. \A t \in Txs : Utxo[Parent[block]][t] = Content(ViewCoins[t])
    BY <1>5, <2>2, ContentsType
  <2>4. \A t \in Txs : view[t] # Absent => ViewCoins[t] = view[t]
    BY DEF ViewCoins, Over
  <2>5. \A t \in Txs : view[t] # Absent => Utxo[Parent[block]][t] = view[t]
    BY <2>3, <2>4 DEF Content
  <2> QED
    BY <2>1, <2>5 DEF Emptied
<1>8. Contents(db)' = Contents(db)
  BY <1>1 DEF Contents
<1>9. L!MoveTo(Parent[hashBlock], L!Touched(hashBlock) \ left)
  <2> HIDE DEF touched, left
  <2> QED
    BY <1>1, <1>2, <1>3, <1>4, <1>6, <1>7, <1>8 DEF L!MoveTo, Emptied, L!Pruned, Pruned
<1>10. L!Disconnect
  BY <1>2, <1>9 DEF L!Disconnect, Emptied
<1> QED
  BY <1>10 DEF L!LedgerNext

LEMMA Saves ==
    ASSUME IInv, Flush, UNCHANGED hashBlock
    PROVE  L!Save
<1>1. /\ Contents(db)' = Contents(TipCoins) /\ Contents(TipCoins)' = Contents(TipCoins)
      /\ dbBest' = hashBlock /\ cacheCoins' = Empty
  BY FlushFacts
<1>2. Emptied' = {}
  BY <1>1, EmptiedNone
<1> QED
  BY <1>1, <1>2 DEF L!Save, Emptied

LEMMA Restarts ==
    ASSUME IInv, Restart
    PROVE  L!Restart
<1>1. cacheCoins' = Empty /\ hashBlock' = dbBest /\ UNCHANGED <<db, dbBest>> /\ db \in Layer
  BY DEF Restart, IInv, TypeOK
<1>2. TipCoins' = db
  BY <1>1, EmptyLayer DEF TipCoins
<1>3. Contents(TipCoins)' = Contents(db) /\ Contents(db)' = Contents(db)
  BY <1>1, <1>2 DEF Contents
<1>4. Emptied' = {}
  BY <1>1, EmptiedNone
<1> QED
  BY <1>1, <1>3, <1>4 DEF L!Restart, Emptied

LEMMA LedgerStart ==
    ASSUME Init
    PROVE  L!LedgerInit
<1>1. Contents(TipCoins) = Utxo[Genesis] /\ Contents(db) = Utxo[Genesis]
  BY CoinsStart DEF Init, IInv, StoreRight
<1>2. Emptied = {}
  BY PrunedIsCoin DEF Init, Emptied, Empty
<1> QED
  BY <1>1, <1>2 DEF Init, L!LedgerInit, Emptied

LEMMA LedgerStep ==
    ASSUME IInv, [Next]_vars
    PROVE  [L!LedgerNext]_(L!ledgerVars)
<1>1. CASE UNCHANGED vars
  BY <1>1, StoresStand DEF vars, storeVars
<1>2. ASSUME NEW b \in Blocks \ {Genesis}, ConnectBlock(b) PROVE UNCHANGED L!ledgerVars
  BY <1>2, LooksUp DEF ConnectBlock
<1>3. CASE CheckInputs
  BY <1>3, LooksUp DEF CheckInputs
<1>4. CASE SpendInput
  BY <1>4, LooksUp DEF SpendInput
<1>5. CASE AddOutputs
  BY <1>5, StoresStand DEF AddOutputs, storeVars
<1>6. CASE BlockConnected
  BY <1>6, Connects
<1>7. CASE DisconnectBlock
  BY <1>7, StoresStand DEF DisconnectBlock, storeVars
<1>8. CASE RemoveOutputs
  BY <1>8, LooksUp DEF RemoveOutputs
<1>9. CASE RestoreInput
  BY <1>9, LooksUp DEF RestoreInput
<1>10. CASE BlockDisconnected
  BY <1>10, Disconnects
<1>11. CASE WriteChainState
  <2>1. CASE Flush
    BY <1>11, <2>1, Saves DEF WriteChainState, L!LedgerNext
  <2>2. CASE UNCHANGED <<cacheCoins, db, dbBest>>
    BY <1>11, <2>2, StoresStand DEF WriteChainState
  <2> QED
    BY <1>11, <2>1, <2>2 DEF WriteChainState
<1>12. CASE UpdateTip
  BY <1>12, StoresStand DEF UpdateTip, storeVars
<1>13. CASE Shutdown
  BY <1>13, Saves DEF Shutdown, L!LedgerNext
<1>14. CASE Crash
  BY <1>14, StoresStand DEF Crash, storeVars
<1>15. CASE Restart
  BY <1>15, Restarts DEF L!LedgerNext
<1> QED
  BY <1>1, <1>2, <1>3, <1>4, <1>5, <1>6, <1>7, <1>8, <1>9, <1>10, <1>11, <1>12, <1>13, <1>14, <1>15
     DEF Next

(* The cache and the database together behave as a ledger that moves from   *)
(* the coins of one chain to those of the next or the previous one in       *)
(* single steps, and falls back to the state last saved.                    *)
THEOREM LedgerImplemented == Spec => ImplementsLedger
<1>1. Init => L!LedgerInit
  BY LedgerStart
<1>2. IInv /\ [Next]_vars => [L!LedgerNext]_(L!ledgerVars)
  BY LedgerStep
<1> QED
  BY <1>1, <1>2, CoinsInvariant, PTL DEF Spec, ImplementsLedger, L!LedgerSpec

=============================================================================
