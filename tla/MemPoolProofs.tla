--------------------------- MODULE MemPoolProofs ---------------------------
(* Theorems about MemPool: its indexes agree with what they index, every    *)
(* transaction of the pool could be mined, and a block takes out of the     *)
(* pool only what it has to.                                                *)
EXTENDS MemPool, TLAPS, WellFoundedInduction

-----------------------------------------------------------------------------
(* Transactions and blocks. *)

LEMMA InsFacts ==
    ASSUME NEW t \in Txs, NEW o \in Ins(t)
    PROVE  /\ o \in Outpoints /\ o[1] \in Txs /\ o[2] \in Nat /\ o = <<o[1], o[2]>>
           /\ o[1] \in Prevs(t)
<1>1. vin[t] \in Seq(Txs \X Nat)
  BY TxAssumption
<1>2. PICK m \in 1 .. Len(vin[t]) : o = vin[t][m]
  BY DEF Ins
<1>3. o \in Txs \X Nat
  BY <1>1, <1>2
<1> QED
  BY <1>3 DEF Outpoints, Prevs

LEMMA PrevsFacts ==
    ASSUME NEW t \in Txs, NEW q \in Prevs(t)
    PROVE  q \in Txs /\ \E o \in Ins(t) : o[1] = q
BY InsFacts DEF Prevs

LEMMA TxInBlock ==
    ASSUME NEW b \in Blocks, NEW i \in 1 .. Len(vtx[b])
    PROVE  vtx[b][i] \in Txs /\ vtx[b][i] \in TxsOf(b)
<1>1. vtx[b] \in Seq(Txs)
  <2>1. vtx \in [Blocks -> Seq(Txs)]
    BY TxAssumption
  <2> QED
    BY <2>1
<1> QED
  BY <1>1 DEF TxsOf

LEMMA TxsOfIn ==
    ASSUME NEW b \in Blocks
    PROVE  TxsOf(b) \subseteq Txs /\ Len(vtx[b]) \in Nat
<1>1. vtx[b] \in Seq(Txs)
  <2>1. vtx \in [Blocks -> Seq(Txs)]
    BY TxAssumption
  <2> QED
    BY <2>1
<1> QED
  BY <1>1 DEF TxsOf

LEMMA CoinsOf ==
    ASSUME NEW b \in Blocks, NEW t \in Txs
    PROVE  /\ Utxo[b][t] \in Coins
           /\ Utxo[b][t].outs \subseteq vout[t]
           /\ Utxo[b][t].outs \subseteq Nat /\ Utxo[b][t].nHeight \in Nat
           /\ Utxo[b][t] = Pruned <=> Utxo[b][t].outs = {}
<1>1. Utxo[b][t] \in Coins /\ Utxo[b][t].outs \subseteq vout[t]
  BY UtxoAssumption
<1> QED
  BY <1>1 DEF Coins, Pruned

(* The chain of a block of which every ancestor was valid.                  *)
Sound(A) == \A b \in A \ {Genesis} : Valid(b) /\ Parent[b] \in A
Good(b) == \E A \in SUBSET Blocks : b \in A /\ Sound(A)

LEMMA GoodFacts ==
    /\ Good(Genesis)
    /\ \A b \in Blocks \ {Genesis} : Good(b) => Valid(b) /\ Good(Parent[b])
    /\ \A b \in Blocks \ {Genesis} : Valid(b) /\ Good(Parent[b]) => Good(b)
<1>1. Good(Genesis)
  <2>1. Genesis \in {Genesis} /\ {Genesis} \in SUBSET Blocks
    BY TreeAssumption
  <2>2. Sound({Genesis})
    BY DEF Sound
  <2> QED
    BY <2>1, <2>2 DEF Good
<1>2. ASSUME NEW b \in Blocks \ {Genesis}, Good(b)
      PROVE  Valid(b) /\ Good(Parent[b])
  BY <1>2 DEF Good, Sound
<1>3. ASSUME NEW b \in Blocks \ {Genesis}, Valid(b), Good(Parent[b])
      PROVE  Good(b)
  <2>1. PICK A \in SUBSET Blocks : Parent[b] \in A /\ Sound(A)
    BY <1>3 DEF Good
  <2>2. Sound(A \cup {b})
    BY <1>3, <2>1 DEF Sound
  <2> QED
    BY <2>1, <2>2 DEF Good
<1> QED
  BY <1>1, <1>2, <1>3

(* What a valid block does to the coins of its parent.                      *)
LEMMA BlockEffect ==
    ASSUME NEW b \in Blocks \ {Genesis}, Valid(b), NEW t \in Txs
    PROVE  /\ t \in TxsOf(b) =>
                 /\ Utxo[Parent[b]][t].outs = {}
                 /\ \A n \in vout[t] : n \in Utxo[b][t].outs \/ \E x \in TxsOf(b) : <<t, n>> \in Ins(x)
                 /\ Utxo[b][t].outs # {} => Utxo[b][t].nHeight = Height[b]
           /\ t \notin TxsOf(b) =>
                 /\ Utxo[b][t].outs \subseteq Utxo[Parent[b]][t].outs
                 /\ \A n \in Utxo[Parent[b]][t].outs :
                        n \in Utxo[b][t].outs \/ \E x \in TxsOf(b) : <<t, n>> \in Ins(x)
                 /\ Utxo[b][t].outs # {} => Utxo[b][t].nHeight = Utxo[Parent[b]][t].nHeight
<1> DEFINE L == Len(vtx[b])
           S == Spent(b, L + 1, 0, t)
<1>1. L \in Nat /\ Parent[b] \in Blocks
  BY TxsOfIn, TreeAssumption
<1>2. Utxo[b] = PartialUtxo(b, L + 1, 0)
  BY UtxoAssumption
<1>3. Utxo[b][t] = IF t \in Created(b, L + 1)
                   THEN Coin(vout[t] \ S, Height[b])
                   ELSE Coin(Utxo[Parent[b]][t].outs \ S, Utxo[Parent[b]][t].nHeight)
  BY <1>2 DEF PartialUtxo
<1>4. Created(b, L + 1) = TxsOf(b)
  BY <1>1 DEF Created, TxsOf
<1>5. \A n \in S : \E x \in TxsOf(b) : <<t, n>> \in Ins(x)
  <2>1. TAKE n \in S
  <2>2. PICK k \in 1 .. L : \E m \in 1 .. Len(vin[vtx[b][k]]) : vin[vtx[b][k]][m] = <<t, n>>
    BY DEF Spent
  <2> QED
    BY <2>2, TxInBlock DEF Ins
<1> HIDE DEF S
<1>6. ASSUME t \in TxsOf(b) PROVE Utxo[Parent[b]][t].outs = {}
  <2>1. PICK k \in 1 .. L : vtx[b][k] = t
    BY <1>6 DEF TxsOf
  <2>2. Utxo[Parent[b]][vtx[b][k]] = Pruned
    BY <2>1 DEF Valid
  <2> QED
    BY <2>1, <2>2 DEF Pruned
<1>7. \A O, h : Coin(O, h).outs = O /\ (O # {} => Coin(O, h).nHeight = h)
  BY DEF Coin, Pruned
<1>8. CASE t \in TxsOf(b)
  <2>1. Utxo[b][t] = Coin(vout[t] \ S, Height[b])
    BY <1>3, <1>4, <1>8
  <2>2. Utxo[b][t].outs = vout[t] \ S
    BY <2>1, <1>7
  <2>3. Utxo[b][t].outs # {} => Utxo[b][t].nHeight = Height[b]
    BY <2>1, <2>2, <1>7
  <2> QED
    BY <1>5, <1>6, <1>8, <2>2, <2>3
<1>9. CASE t \notin TxsOf(b)
  <2> DEFINE c == Utxo[Parent[b]][t]
  <2>1. Utxo[b][t] = Coin(c.outs \ S, c.nHeight)
    BY <1>3, <1>4, <1>9
  <2> HIDE DEF c
  <2>2. Utxo[b][t].outs = c.outs \ S
    BY <2>1, <1>7
  <2>3. Utxo[b][t].outs # {} => Utxo[b][t].nHeight = c.nHeight
    BY <2>1, <2>2, <1>7
  <2> QED
    BY <1>5, <1>9, <2>2, <2>3 DEF c
<1> QED
  BY <1>8, <1>9

-----------------------------------------------------------------------------
(* The pool's operations. *)

PoolGood(p) ==
    /\ p.txs \subseteq Txs
    /\ p.txs \cap Coinbases = {}
    /\ p.next \in [Outpoints -> Txs \cup {NoTx}]
    /\ \A o \in Outpoints : \A t \in Txs : p.next[o] = t <=> t \in p.txs /\ o \in Ins(t)

LEMMA SameSpender ==
    ASSUME NEW p, PoolGood(p), NEW t \in p.txs, NEW u \in p.txs, NEW o \in Ins(t), o \in Ins(u)
    PROVE  t = u
<1>1. t \in Txs /\ u \in Txs /\ o \in Outpoints
  BY InsFacts DEF PoolGood
<1> QED
  BY <1>1 DEF PoolGood

LEMMA WithoutFacts ==
    ASSUME NEW p, PoolGood(p), NEW D
    PROVE  PoolGood(Without(p, D)) /\ Without(p, D).txs = p.txs \ D
<1> DEFINE N == [o \in Outpoints |-> IF \E t \in D \cap p.txs : o \in Ins(t) THEN NoTx ELSE p.next[o]]
<1>1. Without(p, D).txs = p.txs \ D /\ Without(p, D).next = N
  BY DEF Without
<1>2. N \in [Outpoints -> Txs \cup {NoTx}]
  BY DEF PoolGood
<1>3. ASSUME NEW o \in Outpoints, NEW t \in Txs
      PROVE  N[o] = t <=> t \in p.txs \ D /\ o \in Ins(t)
  <2>1. CASE \E u \in D \cap p.txs : o \in Ins(u)
    <3>1. N[o] # t
      BY <2>1, MemPoolAssumption
    <3>2. t \in p.txs /\ o \in Ins(t) => t \in D
      BY <2>1, SameSpender
    <3> QED
      BY <3>1, <3>2
  <2>2. CASE ~ \E u \in D \cap p.txs : o \in Ins(u)
    <3>1. N[o] = p.next[o]
      BY <2>2
    <3>2. p.next[o] = t <=> t \in p.txs /\ o \in Ins(t)
      BY DEF PoolGood
    <3> QED
      BY <2>2, <3>1, <3>2
  <2> QED
    BY <2>1, <2>2
<1> HIDE DEF N
<1> QED
  BY <1>1, <1>2, <1>3 DEF PoolGood

LEMMA AddFacts ==
    ASSUME NEW p, PoolGood(p), NEW t \in Txs \ Coinbases, t \notin p.txs,
           \A o \in Ins(t) : p.next[o] = NoTx
    PROVE  PoolGood(addUnchecked(p, t)) /\ addUnchecked(p, t).txs = p.txs \cup {t}
<1> DEFINE N == [o \in Outpoints |-> IF o \in Ins(t) THEN t ELSE p.next[o]]
<1>1. addUnchecked(p, t).txs = p.txs \cup {t} /\ addUnchecked(p, t).next = N
  BY DEF addUnchecked
<1>2. N \in [Outpoints -> Txs \cup {NoTx}]
  BY DEF PoolGood
<1>3. ASSUME NEW o \in Outpoints, NEW u \in Txs
      PROVE  N[o] = u <=> u \in p.txs \cup {t} /\ o \in Ins(u)
  <2>1. p.next[o] = u <=> u \in p.txs /\ o \in Ins(u)
    BY DEF PoolGood
  <2>2. o \in Ins(t) => p.next[o] # u
    BY MemPoolAssumption
  <2> QED
    BY <2>1, <2>2
<1> HIDE DEF N
<1> QED
  BY <1>1, <1>2, <1>3 DEF PoolGood

(* Through mapNextTx the pool finds the transactions that spend from U.      *)
LEMMA SpendersFacts ==
    ASSUME NEW p, PoolGood(p), NEW U, NEW t
    PROVE  t \in Spenders(p, U) <=> t \in p.txs /\ Prevs(t) \cap U # {}
<1>1. ASSUME t \in Spenders(p, U) PROVE t \in p.txs /\ Prevs(t) \cap U # {}
  <2>1. PICK o \in Outpoints : o[1] \in U /\ t = p.next[o] /\ t # NoTx
    BY <1>1 DEF Spenders
  <2>2. t \in Txs
    BY <2>1 DEF PoolGood
  <2>3. t \in p.txs /\ o \in Ins(t)
    BY <2>1, <2>2 DEF PoolGood
  <2> QED
    BY <2>1, <2>2, <2>3, InsFacts
<1>2. ASSUME t \in p.txs, Prevs(t) \cap U # {} PROVE t \in Spenders(p, U)
  <2>1. t \in Txs
    BY <1>2 DEF PoolGood
  <2>2. PICK q \in Prevs(t) : q \in U
    BY <1>2
  <2>3. PICK o \in Ins(t) : o[1] = q
    BY <2>1, PrevsFacts
  <2>4. o \in Outpoints
    BY <2>1, InsFacts
  <2>5. p.next[o] = t /\ t # NoTx
    BY <1>2, <2>1, <2>4, MemPoolAssumption DEF PoolGood
  <2> QED
    BY <2>2, <2>3, <2>4, <2>5 DEF Spenders
<1> QED
  BY <1>1, <1>2

LEMMA DescendantsFacts ==
    ASSUME NEW p, PoolGood(p), NEW S \in SUBSET Txs
    PROVE  /\ Descendants(p, S) \subseteq p.txs
           /\ \A t \in p.txs : Prevs(t) \cap (S \cup Descendants(p, S)) # {} => t \in Descendants(p, S)
           /\ \A t \in Descendants(p, S) : Prevs(t) \cap (S \cup Descendants(p, S)) # {}
<1> DEFINE D == Descendants(p, S)
<1>1. D \subseteq p.txs
  BY DEF Descendants
<1>2. ASSUME NEW U, NEW t
      PROVE  t \in Spenders(p, U) <=> t \in p.txs /\ Prevs(t) \cap U # {}
  BY SpendersFacts
<1>3. ASSUME NEW t \in p.txs, Prevs(t) \cap (S \cup D) # {} PROVE t \in D
  <2>1. SUFFICES ASSUME NEW T \in SUBSET p.txs, Spenders(p, S \cup T) \subseteq T PROVE t \in T
    BY DEF Descendants
  <2>2. D \subseteq T
    BY <2>1 DEF Descendants
  <2>3. Prevs(t) \cap (S \cup T) # {}
    BY <1>3, <2>2
  <2>4. t \in Spenders(p, S \cup T)
    BY <1>2, <2>3
  <2> QED
    BY <2>1, <2>4
<1>4. ASSUME NEW t \in D PROVE Prevs(t) \cap (S \cup D) # {}
  <2> SUFFICES ASSUME Prevs(t) \cap (S \cup D) = {} PROVE FALSE
    OBVIOUS
  <2> DEFINE T == D \ {t}
  <2>1. T \in SUBSET p.txs
    BY <1>1
  <2>2. ASSUME NEW u \in Spenders(p, S \cup T) PROVE u \in T
    <3>1. u \in p.txs /\ Prevs(u) \cap (S \cup T) # {}
      BY <1>2
    <3>2. Prevs(u) \cap (S \cup D) # {}
      BY <3>1
    <3>3. u \in D
      BY <1>3, <3>1, <3>2
    <3> QED
      BY <3>2, <3>3
  <2>3. t \in p.txs
    BY <1>1
  <2>4. t \in T
    BY <2>1, <2>2, <2>3 DEF Descendants
  <2> QED
    BY <2>4
<1> QED
  BY <1>1, <1>3, <1>4

LEMMA ConflictsFacts ==
    ASSUME NEW p, PoolGood(p), NEW t \in Txs
    PROVE  Conflicts(p, t) = {u \in p.txs : u # t /\ Ins(u) \cap Ins(t) # {}}
<1>1. ASSUME NEW u \in Conflicts(p, t) PROVE u \in p.txs /\ u # t /\ Ins(u) \cap Ins(t) # {}
  <2>1. PICK o \in Ins(t) : u = p.next[o] /\ u # NoTx /\ u # t
    BY <1>1 DEF Conflicts
  <2>2. o \in Outpoints
    BY InsFacts
  <2>3. u \in Txs
    BY <2>1, <2>2 DEF PoolGood
  <2>4. u \in p.txs /\ o \in Ins(u)
    BY <2>1, <2>2, <2>3 DEF PoolGood
  <2> QED
    BY <2>1, <2>4
<1>2. ASSUME NEW u \in p.txs, u # t, NEW o \in Ins(u), o \in Ins(t) PROVE u \in Conflicts(p, t)
  <2>1. u \in Txs /\ o \in Outpoints
    BY <1>2, InsFacts DEF PoolGood
  <2>2. p.next[o] = u /\ u # NoTx
    BY <1>2, <2>1, MemPoolAssumption DEF PoolGood
  <2> QED
    BY <1>2, <2>2 DEF Conflicts
<1> QED
  BY <1>1, <1>2

LEMMA RemoveRecursiveFacts ==
    ASSUME NEW p, PoolGood(p), NEW t \in Txs
    PROVE  LET r == RemoveRecursive(p, t) IN
           /\ PoolGood(r) /\ r.txs \subseteq p.txs \ {t}
           /\ \A u \in r.txs : \A q \in Prevs(u) : q # t /\ (q \in p.txs => q \in r.txs)
<1> DEFINE r == RemoveRecursive(p, t)
           D == Descendants(p, {t})
<1>1. {t} \in SUBSET Txs
  OBVIOUS
<1>2. /\ D \subseteq p.txs
      /\ \A u \in p.txs : Prevs(u) \cap ({t} \cup D) # {} => u \in D
  BY <1>1, DescendantsFacts
<1>3. PoolGood(r) /\ r.txs = p.txs \ ({t} \cup D)
  BY WithoutFacts DEF RemoveRecursive
<1> HIDE DEF r, D
<1> QED
  BY <1>2, <1>3 DEF r

LEMMA AfterConnectFacts ==
    ASSUME NEW p, PoolGood(p), NEW t \in Txs
    PROVE  LET r == AfterConnect(p, t) IN
           /\ PoolGood(r) /\ r.txs \subseteq p.txs \ {t}
           /\ \A u \in r.txs : Ins(u) \cap Ins(t) = {}
           /\ \A u \in r.txs : \A q \in Prevs(u) : q \in p.txs => q \in r.txs \/ q = t
           /\ \A u \in p.txs \ (r.txs \cup {t}) :
                 \/ Ins(u) \cap Ins(t) # {}
                 \/ Prevs(u) \cap (p.txs \ (r.txs \cup {t})) # {}
<1> DEFINE e == Erase(p, t)
           C == Conflicts(e, t)
           D == Descendants(e, C)
           r == AfterConnect(p, t)
<1>1. PoolGood(e) /\ e.txs = p.txs \ {t}
  BY WithoutFacts DEF Erase
<1> HIDE DEF e
<1>2. C = {u \in e.txs : u # t /\ Ins(u) \cap Ins(t) # {}}
  BY <1>1, ConflictsFacts
<1>3. C \in SUBSET Txs
  BY <1>1, <1>2 DEF PoolGood
<1> HIDE DEF C
<1>4. /\ D \subseteq e.txs
      /\ \A u \in e.txs : Prevs(u) \cap (C \cup D) # {} => u \in D
      /\ \A u \in D : Prevs(u) \cap (C \cup D) # {}
  BY <1>1, <1>3, DescendantsFacts
<1> HIDE DEF D
<1>5. PoolGood(r) /\ r.txs = e.txs \ (C \cup D)
  BY <1>1, WithoutFacts DEF AfterConnect, RemoveConflicts, e, C, D
<1> HIDE DEF r
<1>6. p.txs \ (r.txs \cup {t}) = C \cup D
  BY <1>1, <1>2, <1>4, <1>5
<1>7. \A u \in r.txs : Ins(u) \cap Ins(t) = {}
  BY <1>1, <1>2, <1>5
<1>8. \A u \in r.txs : \A q \in Prevs(u) : q \in p.txs => q \in r.txs \/ q = t
  BY <1>1, <1>4, <1>5
<1>9. \A u \in C \cup D : Ins(u) \cap Ins(t) # {} \/ Prevs(u) \cap (C \cup D) # {}
  BY <1>2, <1>4
<1> QED
  BY <1>1, <1>5, <1>6, <1>7, <1>8, <1>9 DEF r

-----------------------------------------------------------------------------
(* Where the inputs of the pool come from: pool p over the chain of b.      *)

Fed(p, b, o) == IF o[1] \in p.txs THEN o[2] \in vout[o[1]] ELSE o[2] \in Utxo[b][o[1]].outs

AllFed(p, b) == \A u \in p.txs : \A o \in Ins(u) : Fed(p, b, o)

(* While the transactions of the connected block b leave the pool: those    *)
(* before n have left it, with their conflicts.                             *)
FedConnecting(p, b, n) ==
    \A u \in p.txs :
        /\ \A k \in 1 .. Len(vtx[b]) : k < n => Ins(u) \cap Ins(vtx[b][k]) = {}
        /\ \A o \in Ins(u) : \/ Fed(p, b, o)
                             \/ o[1] \notin p.txs /\ \E x \in TxsOf(b) : o \in Ins(x)

(* While those of the disconnected block b return: those from n on are yet  *)
(* to come.                                                                 *)
Awaited(p, b, n, o) ==
    /\ o[1] \notin p.txs \cup Coinbases
    /\ o[2] \in vout[o[1]]
    /\ \E k \in 1 .. Len(vtx[b]) : k >= n /\ o[1] = vtx[b][k]

FedDisconnecting(p, b, n) ==
    \A u \in p.txs : \A o \in Ins(u) : Fed(p, Parent[b], o) \/ Awaited(p, b, n, o)

(* A coinbase the pool spends lies deeper than the gate lets a              *)
(* reorganisation from height h go.                                         *)
Matured(p, b, h) ==
    \A u \in p.txs : \A q \in Prevs(u) \cap Coinbases :
        Utxo[b][q].outs # {} => Utxo[b][q].nHeight + MaxReorgDepth <= h

(* What AcceptToMemoryPool has seen to when it takes t.                     *)
Acceptable(p, b, t) ==
    /\ t \in Txs \ Coinbases
    /\ t \notin p.txs
    /\ Utxo[b][t].outs = {}
    /\ \A o \in Ins(t) : /\ p.next[o] = NoTx
                         /\ o[2] \in vout[o[1]]
                         /\ o[1] \in p.txs \/ o[2] \in Utxo[b][o[1]].outs
    /\ \A q \in Prevs(t) \cap Coinbases : Utxo[b][q].nHeight + MaxReorgDepth <= Height[b]

LEMMA AcceptFacts ==
    ASSUME NEW p, PoolGood(p), best \in Blocks, coins = Utxo[best], NEW t \in Txs, AcceptsTo(p, t)
    PROVE  Acceptable(p, best, t)
<1>1. t \notin Coinbases /\ t \notin p.txs /\ ~HaveCoins(p, t)
  BY DEF AcceptsTo, RefusedOutright
<1>2. Utxo[best][t].outs = {}
  BY <1>1 DEF HaveCoins, HaveBelow, Pruned
<1>3. ASSUME NEW o \in Ins(t)
      PROVE  /\ p.next[o] = NoTx
             /\ o[2] \in vout[o[1]]
             /\ o[1] \in p.txs \/ o[2] \in Utxo[best][o[1]].outs
  <2>1. o[1] \in Txs
    BY InsFacts
  <2>2. p.next[o] = NoTx
    BY DEF AcceptsTo, RefusedOutright
  <2>3. Available(p, o)
    BY DEF AcceptsTo
  <2>4. Utxo[best][o[1]].outs \subseteq vout[o[1]]
    BY <2>1, CoinsOf
  <2> QED
    BY <2>2, <2>3, <2>4 DEF Available
<1>4. ASSUME NEW q \in Prevs(t) \cap Coinbases
      PROVE  Utxo[best][q].nHeight + MaxReorgDepth <= Height[best]
  <2> DEFINE h == Height[best]
             n == Utxo[best][q].nHeight
             M == GetCoinbaseMaturity(h + 1)
  <2>1. n \in Nat
    BY PrevsFacts, CoinsOf
  <2>2. h \in Nat
    BY TreeAssumption
  <2>3. MaxReorgDepth < M /\ MaxReorgDepth \in Nat
    BY DepthAssumption, MemPoolAssumption
  <2>4. M \in Nat
    BY MaturityAssumption DEF GetCoinbaseMaturity
  <2>5. h + 1 - n >= M
    BY DEF AcceptsTo, Mature
  <2> HIDE DEF h, n, M
  <2>6. n + MaxReorgDepth <= h
    BY <2>1, <2>2, <2>3, <2>4, <2>5
  <2> QED
    BY <2>6 DEF h, n
<1> QED
  BY <1>1, <1>2, <1>3, <1>4 DEF Acceptable

LEMMA AcceptedFacts ==
    ASSUME NEW p, PoolGood(p), NEW b \in Blocks, NEW t \in Txs, Acceptable(p, b, t)
    PROVE  LET r == addUnchecked(p, t) IN
           /\ PoolGood(r) /\ r.txs = p.txs \cup {t}
           /\ \A o \in Ins(t) : Fed(r, b, o)
           /\ \A u \in Txs : \A o \in Ins(u) : Fed(p, b, o) => Fed(r, b, o)
           /\ \A h \in Nat : Height[b] <= h /\ Matured(p, b, h) => Matured(r, b, h)
<1> DEFINE r == addUnchecked(p, t)
<1>1. PoolGood(r) /\ r.txs = p.txs \cup {t}
  BY AddFacts DEF Acceptable
<1> HIDE DEF r
<1>2. ASSUME NEW o \in Ins(t) PROVE Fed(r, b, o)
  BY <1>1 DEF Acceptable, Fed
<1>3. ASSUME NEW u \in Txs, NEW o \in Ins(u), Fed(p, b, o) PROVE Fed(r, b, o)
  <2>1. Utxo[b][o[1]].outs \subseteq vout[o[1]]
    BY InsFacts, CoinsOf
  <2> QED
    BY <1>1, <1>3, <2>1 DEF Fed
<1>4. ASSUME NEW h \in Nat, Height[b] <= h, Matured(p, b, h) PROVE Matured(r, b, h)
  <2> SUFFICES ASSUME NEW u \in r.txs, NEW q \in Prevs(u) \cap Coinbases, Utxo[b][q].outs # {}
               PROVE  Utxo[b][q].nHeight + MaxReorgDepth <= h
    BY DEF Matured
  <2>1. CASE u \in p.txs
    BY <1>4, <2>1 DEF Matured
  <2>2. CASE u = t
    <3>1. Utxo[b][q].nHeight + MaxReorgDepth <= Height[b]
      BY <2>2 DEF Acceptable
    <3>2. Utxo[b][q].nHeight \in Nat /\ Height[b] \in Nat /\ MaxReorgDepth \in Nat
      BY <2>2, PrevsFacts, CoinsOf, TreeAssumption, MemPoolAssumption
    <3> QED
      BY <1>4, <3>1, <3>2
  <2> QED
    BY <1>1, <2>1, <2>2
<1> QED
  BY <1>1, <1>2, <1>3, <1>4 DEF r

LEMMA AddAllFed ==
    ASSUME NEW p, PoolGood(p), NEW b \in Blocks, NEW t \in Txs, Acceptable(p, b, t), AllFed(p, b)
    PROVE  /\ AllFed(addUnchecked(p, t), b)
           /\ \A u \in p.txs : t \notin Prevs(u)
<1> DEFINE r == addUnchecked(p, t)
<1>1. /\ r.txs = p.txs \cup {t}
      /\ \A o \in Ins(t) : Fed(r, b, o)
      /\ \A u \in Txs : \A o \in Ins(u) : Fed(p, b, o) => Fed(r, b, o)
  BY AcceptedFacts
<1> HIDE DEF r
<1>2. AllFed(r, b)
  BY <1>1 DEF AllFed, PoolGood
<1>3. ASSUME NEW u \in p.txs, t \in Prevs(u) PROVE FALSE
  <2>1. PICK o \in Ins(u) : o[1] = t
    BY <1>3, PrevsFacts DEF PoolGood
  <2>2. Fed(p, b, o)
    BY DEF AllFed
  <2> QED
    BY <2>1, <2>2 DEF Fed, Acceptable
<1> QED
  BY <1>2, <1>3 DEF r

-----------------------------------------------------------------------------
(* Connecting a block. *)

LEMMA ConnectEntry ==
    ASSUME NEW b \in Blocks \ {Genesis}, Valid(b), NEW p, PoolGood(p), AllFed(p, Parent[b]),
           NEW h \in Nat, NEW g \in Nat, h <= g, Matured(p, Parent[b], h)
    PROVE  FedConnecting(p, b, 1) /\ Matured(p, b, g)
<1> DEFINE P == Parent[b]
<1>1. ASSUME NEW u \in p.txs, NEW o \in Ins(u)
      PROVE  Fed(p, b, o) \/ (o[1] \notin p.txs /\ \E x \in TxsOf(b) : o \in Ins(x))
  <2>1. CASE o[1] \in p.txs
    BY <2>1 DEF AllFed, Fed
  <2>2. CASE o[1] \notin p.txs
    <3>1. o[1] \in Txs /\ o = <<o[1], o[2]>>
      BY InsFacts DEF PoolGood
    <3>2. o[2] \in Utxo[P][o[1]].outs
      BY <2>2 DEF AllFed, Fed
    <3>3. o[1] \notin TxsOf(b)
      BY <3>1, <3>2, BlockEffect
    <3>4. o[2] \in Utxo[b][o[1]].outs \/ \E x \in TxsOf(b) : o \in Ins(x)
      BY <3>1, <3>2, <3>3, BlockEffect
    <3> QED
      BY <2>2, <3>4 DEF Fed
  <2> QED
    BY <2>1, <2>2
<1>2. FedConnecting(p, b, 1)
  BY <1>1 DEF FedConnecting
<1>3. ASSUME NEW u \in p.txs, NEW q \in Prevs(u) \cap Coinbases, Utxo[b][q].outs # {}
      PROVE  Utxo[b][q].nHeight + MaxReorgDepth <= g
  <2>1. PICK o \in Ins(u) : o[1] = q
    BY PrevsFacts DEF PoolGood
  <2>2. q \in Txs /\ q \notin p.txs
    BY TxAssumption DEF PoolGood
  <2>3. o[2] \in Utxo[P][q].outs
    BY <2>1, <2>2 DEF AllFed, Fed
  <2>4. q \notin TxsOf(b)
    BY <2>2, <2>3, BlockEffect
  <2>5. Utxo[b][q].nHeight = Utxo[P][q].nHeight
    BY <1>3, <2>2, <2>4, BlockEffect
  <2>6. Utxo[P][q].nHeight + MaxReorgDepth <= h
    BY <2>3 DEF Matured
  <2>7. P \in Blocks
    BY TreeAssumption
  <2>8. Utxo[P][q].nHeight \in Nat /\ MaxReorgDepth \in Nat
    BY <2>2, <2>7, CoinsOf, MemPoolAssumption
  <2> QED
    BY <2>5, <2>6, <2>8
<1>4. Matured(p, b, g)
  BY <1>3 DEF Matured
<1> QED
  BY <1>2, <1>4

LEMMA ConnectStep ==
    ASSUME NEW b \in Blocks \ {Genesis}, Valid(b), NEW p, PoolGood(p), NEW n \in 1 .. Len(vtx[b]),
           FedConnecting(p, b, n)
    PROVE  FedConnecting(AfterConnect(p, vtx[b][n]), b, n + 1)
<1> DEFINE t == vtx[b][n]
           r == AfterConnect(p, t)
<1>1. t \in Txs /\ t \in TxsOf(b)
  BY TxInBlock
<1>2. /\ PoolGood(r) /\ r.txs \subseteq p.txs \ {t}
      /\ \A u \in r.txs : Ins(u) \cap Ins(t) = {}
      /\ \A u \in r.txs : \A q \in Prevs(u) : q \in p.txs => q \in r.txs \/ q = t
  BY <1>1, AfterConnectFacts
<1> HIDE DEF r
<1>3. ASSUME NEW u \in r.txs, NEW k \in 1 .. Len(vtx[b]), k < n + 1
      PROVE  Ins(u) \cap Ins(vtx[b][k]) = {}
  <2>1. k = n \/ k < n
    BY <1>3, TxsOfIn
  <2>2. CASE k = n
    BY <1>2, <2>2
  <2>3. CASE k < n
    BY <1>2, <2>3 DEF FedConnecting
  <2> QED
    BY <2>1, <2>2, <2>3
<1>4. ASSUME NEW u \in r.txs, NEW o \in Ins(u)
      PROVE  Fed(r, b, o) \/ (o[1] \notin r.txs /\ \E x \in TxsOf(b) : o \in Ins(x))
  <2>1. o[1] \in Prevs(u) /\ o = <<o[1], o[2]>>
    BY <1>2, InsFacts DEF PoolGood
  <2>2. Fed(p, b, o) \/ (o[1] \notin p.txs /\ \E x \in TxsOf(b) : o \in Ins(x))
    BY <1>2 DEF FedConnecting
  <2>3. CASE o[1] \notin p.txs
    BY <1>2, <2>2, <2>3 DEF Fed
  <2>4. CASE o[1] \in r.txs
    BY <1>2, <2>2, <2>4 DEF Fed
  <2>5. CASE o[1] \in p.txs /\ o[1] \notin r.txs
    <3>1. o[1] = t
      BY <1>2, <2>1, <2>5
    <3>2. o[2] \in vout[t]
      BY <2>2, <2>5, <3>1 DEF Fed
    <3>3. o[2] \in Utxo[b][t].outs \/ \E x \in TxsOf(b) : <<t, o[2]>> \in Ins(x)
      BY <1>1, <3>2, BlockEffect
    <3> QED
      BY <2>1, <2>5, <3>1, <3>3 DEF Fed
  <2> QED
    BY <2>3, <2>4, <2>5
<1>5. FedConnecting(r, b, n + 1)
  BY <1>3, <1>4 DEF FedConnecting
<1> QED
  BY <1>5 DEF r

LEMMA ConnectExit ==
    ASSUME NEW b \in Blocks, NEW p, NEW n \in Nat, n > Len(vtx[b]), FedConnecting(p, b, n)
    PROVE  AllFed(p, b)
<1> SUFFICES ASSUME NEW u \in p.txs, NEW o \in Ins(u) PROVE Fed(p, b, o)
  BY DEF AllFed
<1>1. SUFFICES ASSUME NEW x \in TxsOf(b), o \in Ins(x) PROVE FALSE
  BY DEF FedConnecting
<1>2. PICK k \in 1 .. Len(vtx[b]) : x = vtx[b][k]
  BY DEF TxsOf
<1>3. k < n
  BY TxsOfIn
<1>4. Ins(u) \cap Ins(vtx[b][k]) = {}
  BY <1>3 DEF FedConnecting
<1> QED
  BY <1>1, <1>2, <1>4

-----------------------------------------------------------------------------
(* Disconnecting one. *)

LEMMA DisconnectEntry ==
    ASSUME NEW b \in Blocks \ {Genesis}, Valid(b), NEW p, PoolGood(p), AllFed(p, b),
           NEW h \in Nat, Matured(p, b, h), h - Height[b] < MaxReorgDepth
    PROVE  FedDisconnecting(p, b, 1) /\ Matured(p, Parent[b], h)
<1> DEFINE P == Parent[b]
<1>1. ASSUME NEW u \in p.txs, NEW q \in Prevs(u) \cap Coinbases
      PROVE  q \notin TxsOf(b) /\ Utxo[b][q].outs # {} /\ q \in Txs
  <2>1. PICK o \in Ins(u) : o[1] = q
    BY PrevsFacts DEF PoolGood
  <2>2. q \in Txs /\ q \notin p.txs
    BY TxAssumption DEF PoolGood
  <2>3. Utxo[b][q].outs # {}
    BY <2>1, <2>2 DEF AllFed, Fed
  <2>4. Utxo[b][q].nHeight + MaxReorgDepth <= h
    BY <2>3 DEF Matured
  <2>5. q \in TxsOf(b) => Utxo[b][q].nHeight = Height[b]
    BY <2>2, <2>3, BlockEffect
  <2>6. Height[b] \in Nat /\ MaxReorgDepth \in Nat
    BY TreeAssumption, MemPoolAssumption
  <2>7. q \notin TxsOf(b)
    BY <2>4, <2>5, <2>6
  <2> QED
    BY <2>2, <2>3, <2>7
<1>2. ASSUME NEW u \in p.txs, NEW o \in Ins(u) PROVE Fed(p, P, o) \/ Awaited(p, b, 1, o)
  <2>1. CASE o[1] \in p.txs
    BY <2>1 DEF AllFed, Fed
  <2>2. CASE o[1] \notin p.txs
    <3>1. o[1] \in Txs /\ o[1] \in Prevs(u)
      BY InsFacts DEF PoolGood
    <3>2. o[2] \in Utxo[b][o[1]].outs
      BY <2>2 DEF AllFed, Fed
    <3>3. CASE o[1] \notin TxsOf(b)
      <4>1. Utxo[b][o[1]].outs \subseteq Utxo[P][o[1]].outs
        BY <3>1, <3>3, BlockEffect
      <4> QED
        BY <2>2, <3>2, <4>1 DEF Fed
    <3>4. CASE o[1] \in TxsOf(b)
      <4>1. o[1] \notin Coinbases
        BY <1>1, <3>1, <3>4
      <4>2. o[2] \in vout[o[1]]
        BY <3>1, <3>2, CoinsOf
      <4>3. \E k \in 1 .. Len(vtx[b]) : k >= 1 /\ o[1] = vtx[b][k]
        BY <3>4 DEF TxsOf
      <4> QED
        BY <2>2, <4>1, <4>2, <4>3 DEF Awaited
    <3> QED
      BY <3>3, <3>4
  <2> QED
    BY <2>1, <2>2
<1>3. FedDisconnecting(p, b, 1)
  BY <1>2 DEF FedDisconnecting
<1>4. ASSUME NEW u \in p.txs, NEW q \in Prevs(u) \cap Coinbases
      PROVE  Utxo[P][q].nHeight + MaxReorgDepth <= h
  <2>1. q \notin TxsOf(b) /\ Utxo[b][q].outs # {} /\ q \in Txs
    BY <1>1
  <2>2. Utxo[b][q].nHeight = Utxo[P][q].nHeight
    BY <2>1, BlockEffect
  <2> QED
    BY <2>1, <2>2 DEF Matured
<1>5. Matured(p, P, h)
  BY <1>4 DEF Matured
<1> QED
  BY <1>3, <1>5

LEMMA DisconnectStep ==
    ASSUME NEW b \in Blocks \ {Genesis}, best = Parent[b], coins = Utxo[best],
           NEW p, PoolGood(p), NEW n \in 1 .. Len(vtx[b]), FedDisconnecting(p, b, n),
           NEW h \in Nat, Height[best] <= h, Matured(p, best, h)
    PROVE  LET r == AfterDisconnect(p, vtx[b][n]) IN
           PoolGood(r) /\ FedDisconnecting(r, b, n + 1) /\ Matured(r, best, h)
<1> DEFINE t == vtx[b][n]
           r == AfterDisconnect(p, t)
<1>1. t \in Txs /\ best \in Blocks
  BY TxInBlock, TreeAssumption
<1>2. ASSUME NEW u \in p.txs, NEW o \in Ins(u)
      PROVE  \/ Fed(p, best, o)
             \/ Awaited(p, b, n + 1, o)
             \/ o[1] = t /\ t \notin Coinbases /\ o[2] \in vout[t]
  <2>1. Fed(p, best, o) \/ Awaited(p, b, n, o)
    BY DEF FedDisconnecting
  <2>2. ASSUME Awaited(p, b, n, o), o[1] # t PROVE Awaited(p, b, n + 1, o)
    <3>1. PICK k \in 1 .. Len(vtx[b]) : k >= n /\ o[1] = vtx[b][k]
      BY <2>2 DEF Awaited
    <3>2. k >= n + 1
      BY <2>2, <3>1, TxsOfIn
    <3> QED
      BY <2>2, <3>1, <3>2 DEF Awaited
  <2>3. Awaited(p, b, n, o) /\ o[1] = t => t \notin Coinbases /\ o[2] \in vout[t]
    BY DEF Awaited
  <2> QED
    BY <2>1, <2>2, <2>3
<1>3. CASE t \in Coinbases
  <2>0. ~AcceptsTo(p, t)
    BY <1>3 DEF AcceptsTo, RefusedOutright
  <2>1. r = p
    BY <1>3, <2>0 DEF AfterDisconnect
  <2>2. FedDisconnecting(p, b, n + 1)
    BY <1>2, <1>3 DEF FedDisconnecting
  <2> QED
    BY <2>1, <2>2
<1>4. CASE t \notin Coinbases /\ AcceptsTo(p, t)
  <2>1. r = addUnchecked(p, t)
    BY <1>4 DEF AfterDisconnect
  <2>2. Acceptable(p, best, t)
    BY <1>1, <1>4, AcceptFacts
  <2>3. /\ PoolGood(r) /\ r.txs = p.txs \cup {t}
        /\ \A o \in Ins(t) : Fed(r, best, o)
        /\ \A u \in Txs : \A o \in Ins(u) : Fed(p, best, o) => Fed(r, best, o)
        /\ Matured(r, best, h)
    BY <1>1, <2>1, <2>2, AcceptedFacts
  <2> HIDE DEF r
  <2>4. ASSUME NEW u \in p.txs, NEW o \in Ins(u)
        PROVE  Fed(r, best, o) \/ Awaited(r, b, n + 1, o)
    <3>0. u \in Txs
      BY DEF PoolGood
    <3>1. CASE Fed(p, best, o)
      BY <2>3, <3>0, <3>1
    <3>2. CASE o[1] = t /\ o[2] \in vout[t]
      BY <2>3, <3>2 DEF Fed
    <3>3. CASE Awaited(p, b, n + 1, o) /\ o[1] # t
      BY <2>3, <3>3 DEF Awaited
    <3>4. Awaited(p, b, n + 1, o) /\ o[1] = t => o[2] \in vout[t]
      BY DEF Awaited
    <3> QED
      BY <1>2, <3>1, <3>2, <3>3, <3>4
  <2>5. FedDisconnecting(r, b, n + 1)
    BY <2>3, <2>4 DEF FedDisconnecting
  <2> QED
    BY <2>3, <2>5 DEF r
<1>5. CASE t \notin Coinbases /\ ~AcceptsTo(p, t)
  <2>1. r = RemoveRecursive(p, t)
    BY <1>5 DEF AfterDisconnect
  <2>2. /\ PoolGood(r) /\ r.txs \subseteq p.txs \ {t}
        /\ \A u \in r.txs : \A q \in Prevs(u) : q # t /\ (q \in p.txs => q \in r.txs)
    BY <1>1, <2>1, RemoveRecursiveFacts
  <2> HIDE DEF r
  <2>3. ASSUME NEW u \in r.txs, NEW o \in Ins(u)
        PROVE  Fed(r, best, o) \/ Awaited(r, b, n + 1, o)
    <3>1. o[1] \in Prevs(u) /\ u \in p.txs
      BY <2>2, InsFacts DEF PoolGood
    <3>2. o[1] # t /\ (o[1] \in p.txs <=> o[1] \in r.txs)
      BY <2>2, <3>1
    <3>3. Fed(p, best, o) \/ Awaited(p, b, n + 1, o)
      BY <1>2, <3>1, <3>2
    <3> QED
      BY <3>2, <3>3 DEF Fed, Awaited
  <2>4. FedDisconnecting(r, b, n + 1)
    BY <2>3 DEF FedDisconnecting
  <2>5. Matured(r, best, h)
    BY <2>2 DEF Matured
  <2> QED
    BY <2>2, <2>4, <2>5 DEF r
<1> QED
  BY <1>3, <1>4, <1>5

LEMMA DisconnectExit ==
    ASSUME NEW b \in Blocks, NEW p, NEW n \in Nat, n > Len(vtx[b]), FedDisconnecting(p, b, n)
    PROVE  AllFed(p, Parent[b])
<1>1. \A o : ~Awaited(p, b, n, o)
  BY TxsOfIn DEF Awaited
<1> QED
  BY <1>1 DEF AllFed, FedDisconnecting

-----------------------------------------------------------------------------
(* The inductive invariant. *)

TypeInv ==
    /\ orphanTxs \subseteq Txs /\ orphansByPrev \in [Txs -> SUBSET Txs]
    /\ pc \in {"idle", "write", "updated", "tx"}
    /\ block \in Blocks /\ nTx \in Nat \ {0}
    /\ vWorkQueue \in Seq(Txs) /\ next \in Nat /\ mi \subseteq Txs

LedgerInv ==
    /\ best \in Blocks /\ coins = Utxo[best] /\ Good(best)
    /\ saved \in Blocks /\ savedCoins = Utxo[saved] /\ Good(saved)
    /\ peak \in Nat /\ Height[best] <= peak

PoolInv ==
    /\ PoolGood(Pool)
    /\ Matured(Pool, best, peak)
    /\ Settled => AllFed(Pool, best)
    /\ ~Settled =>
          /\ block # Genesis
          /\ \/ best = block /\ FedConnecting(Pool, block, nTx)
             \/ best = Parent[block] /\ FedDisconnecting(Pool, block, nTx)

OrphanInv ==
    /\ \A q, t \in Txs : t \in orphansByPrev[q] <=> t \in orphanTxs /\ q \in Prevs(t)
    /\ mi \subseteq orphanTxs
    /\ pc # "tx" => mi = {}

Queue == {vWorkQueue[k] : k \in 1 .. Len(vWorkQueue)}

(* The loops have yet to come to orphan t. *)
Pending(t) == t \in mi \/ \E k \in next + 1 .. Len(vWorkQueue) : vWorkQueue[k] \in Prevs(t)

QueueInv ==
    pc = "tx" =>
        /\ 1 <= next /\ next <= Len(vWorkQueue)
        /\ mi \subseteq orphansByPrev[vWorkQueue[next]]
        /\ Queue \subseteq mapTx
        /\ vEraseQueue \cap mapTx \subseteq Queue
        /\ \A u \in mapTx : Prevs(u) \cap Queue # {} => u \in Queue
        /\ \A t \in orphanTxs \ vEraseQueue :
              Prevs(t) \cap Queue # {} => Pending(t) \/ MissingInputs(Pool, t)

IInv == TypeInv /\ LedgerInv /\ PoolInv /\ OrphanInv /\ QueueInv

LEMMA ParentDiffers ==
    ASSUME NEW b \in Blocks \ {Genesis}
    PROVE  Parent[b] # b /\ Parent[b] \in Blocks /\ Height[b] = Height[Parent[b]] + 1
BY TreeAssumption

LEMMA SetPoolFacts ==
    ASSUME NEW r, r = [txs |-> r.txs, next |-> r.next], SetPool(r)
    PROVE  Pool' = r
BY DEF SetPool, Pool

LEMMA PoolShapes ==
    \A p, t :
        /\ addUnchecked(p, t) = [txs |-> addUnchecked(p, t).txs, next |-> addUnchecked(p, t).next]
        /\ RemoveRecursive(p, t) = [txs |-> RemoveRecursive(p, t).txs, next |-> RemoveRecursive(p, t).next]
        /\ AfterConnect(p, t) = [txs |-> AfterConnect(p, t).txs, next |-> AfterConnect(p, t).next]
BY DEF addUnchecked, RemoveRecursive, AfterConnect, RemoveConflicts, Without

LEMMA EmptyPoolFacts ==
    /\ PoolGood(EmptyPool)
    /\ \A b : AllFed(EmptyPool, b)
    /\ \A b, h : Matured(EmptyPool, b, h)
    /\ EmptyPool = [txs |-> EmptyPool.txs, next |-> EmptyPool.next]
BY MemPoolAssumption DEF EmptyPool, PoolGood, AllFed, Matured

LEMMA InitIInv ==
    ASSUME Init
    PROVE  IInv
<1>1. Genesis \in Blocks /\ Height[Genesis] \in Nat
  BY TreeAssumption
<1>2. TypeInv
  BY <1>1 DEF Init, TypeInv
<1>3. LedgerInv
  BY <1>1, GoodFacts DEF Init, LedgerInit, LedgerInv
<1>4. PoolInv
  <2>1. Pool = EmptyPool
    BY DEF Init, Pool, EmptyPool
  <2>2. Settled
    BY DEF Init, Settled
  <2> QED
    BY <2>1, <2>2, EmptyPoolFacts DEF PoolInv
<1>5. OrphanInv
  BY DEF Init, OrphanInv
<1>6. QueueInv
  BY DEF Init, QueueInv
<1> QED
  BY <1>2, <1>3, <1>4, <1>5, <1>6 DEF IInv

LEMMA LedgerStep ==
    ASSUME LedgerInv, [Next]_vars
    PROVE  LedgerInv'
<1> USE DEF LedgerInv
<1>1. ASSUME NEW b \in Blocks \ {Genesis}, ConnectBlock(b) PROVE LedgerInv'
  <2>1. Parent[b] = best /\ Valid(b) /\ best' = b /\ coins' = Utxo[b]
        /\ UNCHANGED <<saved, savedCoins>>
    BY <1>1 DEF ConnectBlock, Connect, MoveTo
  <2>2. Good(b)
    BY <2>1, GoodFacts
  <2>3. peak' \in Nat /\ Height[b] <= peak'
    BY <1>1, TreeAssumption DEF ConnectBlock
  <2> QED
    BY <2>1, <2>2, <2>3
<1>2. CASE DisconnectBlock
  <2>1. best # Genesis /\ best' = Parent[best] /\ coins' = Utxo[Parent[best]]
        /\ UNCHANGED <<saved, savedCoins, peak>>
    BY <1>2 DEF DisconnectBlock, Disconnect, MoveTo
  <2>2. Parent[best] \in Blocks /\ Height[best] = Height[Parent[best]] + 1
    BY <2>1, ParentDiffers
  <2>3. Good(Parent[best])
    BY <2>1, GoodFacts
  <2>4. Height[Parent[best]] \in Nat
    BY <2>2, TreeAssumption
  <2>5. Height[Parent[best]] <= peak
    BY <2>2, <2>4
  <2> QED
    BY <2>1, <2>2, <2>3, <2>5
<1>3. CASE WriteChainState
  BY <1>3 DEF WriteChainState, Save, ledgerVars
<1>4. CASE Crash
  BY <1>4, TreeAssumption DEF Crash, Restart
<1>5. CASE UNCHANGED <<ledgerVars, peak>>
  BY <1>5 DEF ledgerVars
<1>6. ASSUME NEW t \in Txs, AcceptTx(t) \/ StoreOrphan(t) \/ TryOrphan(t) \/ AcceptOwn(t)
      PROVE  UNCHANGED <<ledgerVars, peak>>
  BY <1>6 DEF AcceptTx, StoreOrphan, TryOrphan, AcceptOwn
<1>7. ASSUME UpdatePool \/ UpdateTip \/ NextParent \/ EndTx \/ UNCHANGED vars
      PROVE  UNCHANGED <<ledgerVars, peak>>
  BY <1>7 DEF UpdatePool, UpdateTip, NextParent, EndTx, vars
<1> QED
  BY <1>1, <1>2, <1>3, <1>4, <1>5, <1>6, <1>7 DEF Next

LEMMA TypeStep ==
    ASSUME TypeInv, LedgerInv, [Next]_vars
    PROVE  TypeInv'
<1> USE DEF TypeInv
<1>1. ASSUME NEW b \in Blocks \ {Genesis}, ConnectBlock(b) PROVE TypeInv'
  BY <1>1 DEF ConnectBlock, orphanVars, queueVars
<1>2. CASE DisconnectBlock
  BY <1>2 DEF DisconnectBlock, orphanVars, queueVars, LedgerInv
<1>3. CASE WriteChainState
  BY <1>3 DEF WriteChainState, orphanVars, queueVars
<1>4. CASE UpdatePool
  BY <1>4 DEF UpdatePool, orphanVars, queueVars
<1>5. CASE UpdateTip
  BY <1>5, TreeAssumption DEF UpdateTip, orphanVars, queueVars
<1>6. ASSUME NEW t \in Txs, AcceptTx(t) PROVE TypeInv'
  <2>1. <<t>> \in Seq(Txs)
    OBVIOUS
  <2> QED
    BY <1>6, <2>1 DEF AcceptTx, orphanVars
<1>7. ASSUME NEW t \in Txs, StoreOrphan(t) PROVE TypeInv'
  <2> DEFINE o == AddOrphan(t)
  <2>1. o.txs \subseteq Txs /\ o.byPrev \in [Txs -> SUBSET Txs]
    BY DEF AddOrphan
  <2>2. \A e : WithoutOrphans(o, {e}).txs \subseteq Txs /\ WithoutOrphans(o, {e}).byPrev \in [Txs -> SUBSET Txs]
    BY <2>1 DEF WithoutOrphans
  <2>3. SetOrphans(o) \/ \E e : SetOrphans(WithoutOrphans(o, {e}))
    BY <1>7 DEF StoreOrphan
  <2> HIDE DEF o
  <2>4. orphanTxs' \subseteq Txs /\ orphansByPrev' \in [Txs -> SUBSET Txs]
    BY <2>1, <2>2, <2>3 DEF SetOrphans
  <2> QED
    BY <1>7, <2>4 DEF StoreOrphan, queueVars
<1>8. ASSUME NEW t \in Txs, TryOrphan(t) PROVE TypeInv'
  <2>1. vWorkQueue' \in Seq(Txs)
    BY <1>8 DEF TryOrphan, Queued
  <2> QED
    BY <1>8, <2>1 DEF TryOrphan, orphanVars
<1>9. CASE NextParent
  <2>1. next + 1 \in 1 .. Len(vWorkQueue)
    BY <1>9 DEF NextParent
  <2>2. vWorkQueue[next + 1] \in Txs
    BY <2>1
  <2> QED
    BY <1>9, <2>2 DEF NextParent, orphanVars
<1>10. CASE EndTx
  <2>1. orphanTxs' \subseteq Txs /\ orphansByPrev' \in [Txs -> SUBSET Txs]
    BY <1>10 DEF EndTx, SetOrphans, WithoutOrphans
  <2> QED
    BY <1>10, <2>1 DEF EndTx
<1>11. ASSUME NEW t \in Txs, AcceptOwn(t) PROVE TypeInv'
  BY <1>11 DEF AcceptOwn, orphanVars, queueVars
<1>12. CASE Crash
  BY <1>12, TreeAssumption DEF Crash
<1>13. CASE UNCHANGED vars
  BY <1>13 DEF vars, orphanVars, queueVars
<1> QED
  BY <1>1, <1>2, <1>3, <1>4, <1>5, <1>6, <1>7, <1>8, <1>9, <1>10, <1>11, <1>12, <1>13 DEF Next

LEMMA PoolAccept ==
    ASSUME LedgerInv, PoolInv, Settled, NEW t \in Txs, AcceptsTo(Pool, t),
           SetPool(addUnchecked(Pool, t)), UNCHANGED <<ledgerVars, peak>>, Settled'
    PROVE  /\ PoolInv'
           /\ mapTx' = mapTx \cup {t}
           /\ t \notin mapTx
           /\ \A u \in mapTx : t \notin Prevs(u)
<1> DEFINE r == addUnchecked(Pool, t)
<1>1. Pool' = r
  BY PoolShapes, SetPoolFacts
<1>2. PoolGood(Pool) /\ AllFed(Pool, best) /\ Matured(Pool, best, peak)
  BY DEF PoolInv
<1>3. best \in Blocks /\ peak \in Nat /\ Height[best] <= peak /\ coins = Utxo[best]
  BY DEF LedgerInv
<1>4. Acceptable(Pool, best, t)
  BY <1>2, <1>3, AcceptFacts
<1>5. PoolGood(r) /\ r.txs = Pool.txs \cup {t} /\ Matured(r, best, peak)
  BY <1>2, <1>3, <1>4, AcceptedFacts
<1>6. AllFed(r, best) /\ \A u \in Pool.txs : t \notin Prevs(u)
  BY <1>2, <1>3, <1>4, AddAllFed
<1>7. best' = best /\ peak' = peak
  BY DEF ledgerVars
<1>8. Pool.txs = mapTx /\ t \notin Pool.txs
  BY <1>4 DEF Pool, Acceptable
<1>9. mapTx' = r.txs
  BY DEF SetPool
<1> HIDE DEF r
<1>10. PoolInv'
  BY <1>1, <1>5, <1>6, <1>7 DEF PoolInv
<1> QED
  BY <1>5, <1>6, <1>8, <1>9, <1>10

LEMMA PoolStep ==
    ASSUME TypeInv, LedgerInv, PoolInv, [Next]_vars
    PROVE  PoolInv'
<1>0. /\ PoolGood(Pool) /\ Matured(Pool, best, peak)
      /\ Settled => AllFed(Pool, best)
      /\ best \in Blocks /\ Good(best) /\ coins = Utxo[best]
      /\ peak \in Nat /\ Height[best] <= peak
      /\ nTx \in Nat \ {0} /\ block \in Blocks
  BY DEF TypeInv, LedgerInv, PoolInv
<1>1. ASSUME NEW b \in Blocks \ {Genesis}, ConnectBlock(b) PROVE PoolInv'
  <2>1. Parent[b] = best /\ Valid(b) /\ best' = b /\ Settled /\ ~Settled'
        /\ block' = b /\ nTx' = 1 /\ Pool' = Pool
    BY <1>1 DEF ConnectBlock, Connect, MoveTo, Settled, Pool, poolVars
  <2>2. peak' \in Nat /\ peak <= peak'
    BY <1>0, <1>1, TreeAssumption DEF ConnectBlock
  <2>3. FedConnecting(Pool, b, 1) /\ Matured(Pool, b, peak')
    BY <1>0, <2>1, <2>2, ConnectEntry
  <2> QED
    BY <1>0, <2>1, <2>3 DEF PoolInv
<1>2. CASE DisconnectBlock
  <2>1. best # Genesis /\ best' = Parent[best] /\ Settled /\ ~Settled'
        /\ block' = best /\ nTx' = 1 /\ Pool' = Pool /\ peak' = peak
        /\ peak - Height[best] < MaxReorgDepth
    BY <1>2 DEF DisconnectBlock, Disconnect, MoveTo, Settled, Pool, poolVars
  <2>2. Valid(best)
    BY <1>0, <2>1, GoodFacts
  <2>3. FedDisconnecting(Pool, best, 1) /\ Matured(Pool, Parent[best], peak)
    BY <1>0, <2>1, <2>2, DisconnectEntry
  <2> QED
    BY <1>0, <2>1, <2>3 DEF PoolInv
<1>3. CASE WriteChainState
  <2>1. ~Settled /\ ~Settled'
    BY <1>3 DEF WriteChainState, Settled
  <2>2. best' = best /\ peak' = peak /\ block' = block /\ nTx' = nTx /\ Pool' = Pool
    BY <1>3 DEF WriteChainState, Save, ledgerVars, Pool, poolVars
  <2> QED
    BY <2>1, <2>2 DEF PoolInv
<1>4. CASE UpdatePool
  <2>1. ~Settled /\ ~Settled' /\ block' = block /\ nTx' = nTx + 1 /\ best' = best /\ peak' = peak
    BY <1>4 DEF UpdatePool, Settled, ledgerVars
  <2>2. block \in Blocks \ {Genesis}
    BY <1>0, <2>1 DEF PoolInv
  <2>3. nTx \in 1 .. Len(vtx[block])
    BY <1>0, <1>4, TxsOfIn DEF UpdatePool
  <2>4. tx \in Txs /\ tx = vtx[block][nTx]
    BY <2>2, <2>3, TxInBlock DEF tx
  <2>5. CASE Connected
    <3>1. best = block /\ FedConnecting(Pool, block, nTx)
      BY <2>1, <2>2, <2>5, ParentDiffers DEF PoolInv, Connected
    <3>2. Valid(block)
      BY <1>0, <2>2, <3>1, GoodFacts
    <3>3. Pool' = AfterConnect(Pool, tx)
      BY <1>4, <2>5, PoolShapes, SetPoolFacts DEF UpdatePool
    <3>4. PoolGood(Pool') /\ Pool'.txs \subseteq Pool.txs
      BY <1>0, <2>4, <3>3, AfterConnectFacts
    <3>5. FedConnecting(Pool', block, nTx + 1)
      BY <1>0, <2>2, <2>3, <2>4, <3>1, <3>2, <3>3, ConnectStep
    <3>6. Matured(Pool', best, peak)
      BY <1>0, <3>4 DEF Matured
    <3> QED
      BY <2>1, <2>2, <3>1, <3>4, <3>5, <3>6 DEF PoolInv
  <2>6. CASE ~Connected
    <3>1. best = Parent[block] /\ FedDisconnecting(Pool, block, nTx)
      BY <2>1, <2>6 DEF PoolInv, Connected
    <3> DEFINE r == AfterDisconnect(Pool, tx)
    <3>2. PoolGood(r) /\ FedDisconnecting(r, block, nTx + 1) /\ Matured(r, best, peak)
      BY <1>0, <2>2, <2>3, <2>4, <3>1, DisconnectStep
    <3>3. r = [txs |-> r.txs, next |-> r.next]
      <4>1. r = Pool \/ r = addUnchecked(Pool, tx) \/ r = RemoveRecursive(Pool, tx)
        BY DEF AfterDisconnect, AcceptsTo, RefusedOutright
      <4> QED
        BY <4>1, PoolShapes DEF Pool
    <3>4. SetPool(r)
      BY <1>4, <2>6 DEF UpdatePool
    <3> HIDE DEF r
    <3>5. Pool' = r
      BY <3>3, <3>4, SetPoolFacts
    <3> QED
      BY <2>1, <2>2, <3>1, <3>2, <3>5 DEF PoolInv
  <2> QED
    BY <2>5, <2>6
<1>5. CASE UpdateTip
  <2>1. ~Settled /\ Settled' /\ best' = best /\ peak' = peak /\ Pool' = Pool /\ nTx > Len(vtx[block])
    BY <1>5 DEF UpdateTip, Settled, ledgerVars, Pool, poolVars
  <2>2. AllFed(Pool, best)
    <3>1. CASE best = block /\ FedConnecting(Pool, block, nTx)
      BY <1>0, <2>1, <3>1, ConnectExit
    <3>2. CASE best = Parent[block] /\ FedDisconnecting(Pool, block, nTx)
      BY <1>0, <2>1, <3>2, DisconnectExit
    <3> QED
      BY <2>1, <3>1, <3>2 DEF PoolInv
  <2> QED
    BY <1>0, <2>1, <2>2 DEF PoolInv
<1>6. ASSUME NEW t \in Txs, AcceptTx(t) \/ AcceptOwn(t) PROVE PoolInv'
  <2>1. Settled /\ Settled' /\ AcceptsTo(Pool, t) /\ SetPool(addUnchecked(Pool, t))
        /\ UNCHANGED <<ledgerVars, peak>>
    BY <1>6 DEF AcceptTx, AcceptOwn, Settled
  <2> QED
    BY <2>1, PoolAccept
<1>7. ASSUME UNCHANGED <<poolVars, best, peak>>, Settled, Settled' PROVE PoolInv'
  <2>1. Pool' = Pool /\ best' = best /\ peak' = peak
    BY <1>7 DEF Pool, poolVars
  <2> QED
    BY <1>7, <2>1 DEF PoolInv
<1>8. ASSUME NEW t \in Txs, StoreOrphan(t) PROVE PoolInv'
  <2>1. UNCHANGED <<poolVars, best, peak>> /\ Settled /\ Settled'
    BY <1>8 DEF StoreOrphan, Settled, ledgerVars
  <2> QED
    BY <1>7, <2>1
<1>9. ASSUME NEW t \in Txs, TryOrphan(t) PROVE PoolInv'
  <2>1. Settled /\ Settled' /\ UNCHANGED <<ledgerVars, peak>>
    BY <1>9 DEF TryOrphan, Settled
  <2>2. CASE AcceptsTo(Pool, t) /\ SetPool(addUnchecked(Pool, t))
    BY <2>1, <2>2, PoolAccept
  <2>3. CASE UNCHANGED poolVars
    BY <1>7, <2>1, <2>3 DEF ledgerVars
  <2> QED
    BY <1>9, <2>2, <2>3 DEF TryOrphan
<1>10. ASSUME NextParent \/ EndTx PROVE PoolInv'
  <2>1. UNCHANGED <<poolVars, best, peak>> /\ Settled /\ Settled'
    BY <1>10 DEF NextParent, EndTx, Settled, ledgerVars
  <2> QED
    BY <1>7, <2>1
<1>11. CASE Crash
  <2>1. Settled' /\ Pool' = EmptyPool
    BY <1>11, EmptyPoolFacts, SetPoolFacts DEF Crash, Settled
  <2> QED
    BY <2>1, EmptyPoolFacts DEF PoolInv
<1>12. CASE UNCHANGED vars
  <2>1. UNCHANGED <<poolVars, best, peak, block, nTx, pc>>
    BY <1>12 DEF vars, ledgerVars
  <2>2. Pool' = Pool /\ Settled' = Settled
    BY <2>1 DEF Pool, poolVars, Settled
  <2> QED
    BY <2>1, <2>2 DEF PoolInv
<1> QED
  BY <1>1, <1>2, <1>3, <1>4, <1>5, <1>6, <1>8, <1>9, <1>10, <1>11, <1>12 DEF Next

LEMMA OrphanStep ==
    ASSUME TypeInv, OrphanInv, [Next]_vars
    PROVE  OrphanInv'
<1> USE DEF OrphanInv
<1> DEFINE Exact(o) == \A q, t \in Txs : t \in o.byPrev[q] <=> t \in o.txs /\ q \in Prevs(t)
           now == [txs |-> orphanTxs, byPrev |-> orphansByPrev]
<1>1. Exact(now)
  OBVIOUS
<1>2. ASSUME NEW o, Exact(o), NEW D PROVE Exact(WithoutOrphans(o, D))
  BY <1>2 DEF WithoutOrphans
<1>3. ASSUME NEW t \in Txs PROVE Exact(AddOrphan(t))
  BY DEF AddOrphan, TypeInv
<1>4. ASSUME NEW o, Exact(o), SetOrphans(o), mi' = {} PROVE OrphanInv'
  BY <1>4 DEF SetOrphans
<1> HIDE DEF Exact, now
<1>5. ASSUME NEW t \in Txs, StoreOrphan(t) PROVE OrphanInv'
  <2>1. mi' = {}
    BY <1>5 DEF StoreOrphan, queueVars
  <2> DEFINE o == AddOrphan(t)
  <2>2. SetOrphans(o) \/ \E e \in o.txs : SetOrphans(WithoutOrphans(o, {e}))
    BY <1>5 DEF StoreOrphan
  <2>3. Exact(o)
    BY <1>3
  <2> HIDE DEF o
  <2>4. CASE SetOrphans(o)
    BY <1>4, <2>1, <2>3, <2>4
  <2>5. ASSUME NEW e \in o.txs, SetOrphans(WithoutOrphans(o, {e})) PROVE OrphanInv'
    <3>1. Exact(WithoutOrphans(o, {e}))
      BY <1>2, <2>3
    <3> QED
      BY <1>4, <2>1, <2>5, <3>1
  <2> QED
    BY <2>2, <2>4, <2>5
<1>6. CASE EndTx
  <2>1. SetOrphans(WithoutOrphans(now, vEraseQueue)) /\ mi' = {}
    BY <1>6 DEF EndTx, now
  <2>2. Exact(WithoutOrphans(now, vEraseQueue))
    BY <1>1, <1>2
  <2> QED
    BY <1>4, <2>1, <2>2
<1>7. CASE Crash
  BY <1>7 DEF Crash
<1>8. ASSUME NEW t \in Txs, AcceptTx(t) PROVE OrphanInv'
  <2>1. orphansByPrev[t] \subseteq orphanTxs
    BY DEF TypeInv
  <2> QED
    BY <1>8, <2>1 DEF AcceptTx, orphanVars
<1>9. ASSUME NEW t \in Txs, TryOrphan(t) PROVE OrphanInv'
  BY <1>9 DEF TryOrphan, orphanVars
<1>10. CASE NextParent
  <2>1. vWorkQueue[next + 1] \in Txs
    BY <1>10 DEF NextParent, TypeInv
  <2>2. orphansByPrev[vWorkQueue[next + 1]] \subseteq orphanTxs
    BY <2>1 DEF TypeInv
  <2> QED
    BY <1>10, <2>2 DEF NextParent, orphanVars
<1>11. ASSUME UNCHANGED <<orphanVars, mi>>, pc' # "tx" => pc # "tx" \/ mi = {} PROVE OrphanInv'
  BY <1>11 DEF orphanVars
<1>12. ASSUME NEW b \in Blocks \ {Genesis}, ConnectBlock(b) PROVE OrphanInv'
  BY <1>11, <1>12 DEF ConnectBlock, queueVars
<1>13. ASSUME NEW t \in Txs, AcceptOwn(t) PROVE OrphanInv'
  BY <1>11, <1>13 DEF AcceptOwn, queueVars
<1>14. ASSUME DisconnectBlock \/ WriteChainState \/ UpdatePool \/ UpdateTip \/ UNCHANGED vars
       PROVE  OrphanInv'
  BY <1>11, <1>14 DEF DisconnectBlock, WriteChainState, UpdatePool, UpdateTip, vars, queueVars
<1> QED
  BY <1>5, <1>6, <1>7, <1>8, <1>9, <1>10, <1>12, <1>13, <1>14 DEF Next

LEMMA QueueStep ==
    ASSUME TypeInv, LedgerInv, PoolInv, OrphanInv, QueueInv, [Next]_vars
    PROVE  QueueInv'
<1>1. ASSUME NEW t \in Txs, AcceptTx(t) PROVE QueueInv'
  <2>1. Settled /\ Settled' /\ AcceptsTo(Pool, t) /\ SetPool(addUnchecked(Pool, t))
        /\ UNCHANGED <<ledgerVars, peak>>
    BY <1>1 DEF AcceptTx, Settled
  <2>2. mapTx' = mapTx \cup {t} /\ \A u \in mapTx : t \notin Prevs(u)
    BY <2>1, PoolAccept
  <2>3. vWorkQueue' = <<t>> /\ next' = 1 /\ mi' = orphansByPrev[t] /\ vEraseQueue' = {t}
        /\ orphansByPrev' = orphansByPrev /\ orphanTxs' = orphanTxs
    BY <1>1 DEF AcceptTx, orphanVars
  <2>4. Len(vWorkQueue') = 1 /\ vWorkQueue'[next'] = t /\ Queue' = {t}
    BY <2>3 DEF Queue
  <2>5. ASSUME NEW c \in orphanTxs', t \in Prevs(c) PROVE Pending(c)'
    BY <2>3, <2>5 DEF OrphanInv, Pending, TypeInv
  <2> QED
    BY <2>2, <2>3, <2>4, <2>5 DEF QueueInv
<1>2. ASSUME NEW t \in Txs, TryOrphan(t) PROVE QueueInv'
  <2>1. /\ pc = "tx" /\ t \in mi /\ mi' = mi \ {t} /\ next' = next
        /\ UNCHANGED <<ledgerVars, orphanTxs, orphansByPrev, peak>>
        /\ Settled /\ Settled'
    BY <1>2 DEF TryOrphan, orphanVars, Settled
  <2>2. /\ 1 <= next /\ next <= Len(vWorkQueue)
        /\ mi \subseteq orphansByPrev[vWorkQueue[next]]
        /\ Queue \subseteq mapTx
        /\ vEraseQueue \cap mapTx \subseteq Queue
        /\ \A u \in mapTx : Prevs(u) \cap Queue # {} => u \in Queue
        /\ \A c \in orphanTxs \ vEraseQueue :
              Prevs(c) \cap Queue # {} => Pending(c) \/ MissingInputs(Pool, c)
    BY <2>1 DEF QueueInv
  <2>3. vWorkQueue \in Seq(Txs) /\ next \in Nat
    BY DEF TypeInv
  <2>4. \A q : HaveBelow(q)' = HaveBelow(q)
    BY <2>1 DEF HaveBelow, ledgerVars
  <2>5. CASE /\ AcceptsTo(Pool, t) /\ SetPool(addUnchecked(Pool, t))
             /\ vWorkQueue' = Queued(t) /\ vEraseQueue' = vEraseQueue \cup {t}
    <3>1. mapTx' = mapTx \cup {t} /\ \A u \in mapTx : t \notin Prevs(u)
      BY <2>1, <2>5, PoolAccept
    <3>2. /\ Len(vWorkQueue') = Len(vWorkQueue) + 1
          /\ \A k \in 1 .. Len(vWorkQueue) : vWorkQueue'[k] = vWorkQueue[k]
          /\ vWorkQueue'[Len(vWorkQueue) + 1] = t
      BY <2>3, <2>5 DEF Queued
    <3>3. Queue' = Queue \cup {t}
      BY <2>3, <3>2 DEF Queue
    <3>4. next' <= Len(vWorkQueue') /\ vWorkQueue'[next'] = vWorkQueue[next]
      BY <2>1, <2>2, <2>3, <3>2
    <3>5. ASSUME NEW c, c # t, Pending(c) PROVE Pending(c)'
      <4>1. CASE c \in mi
        BY <2>1, <3>5, <4>1 DEF Pending
      <4>2. CASE \E k \in next + 1 .. Len(vWorkQueue) : vWorkQueue[k] \in Prevs(c)
        <5>1. PICK k \in next + 1 .. Len(vWorkQueue) : vWorkQueue[k] \in Prevs(c)
          BY <4>2
        <5>2. k \in 1 .. Len(vWorkQueue) /\ k \in next' + 1 .. Len(vWorkQueue')
          BY <2>1, <2>3, <3>2
        <5> QED
          BY <3>2, <5>1, <5>2 DEF Pending
      <4> QED
        BY <3>5, <4>1, <4>2 DEF Pending
    <3>6. ASSUME NEW c, t \in Prevs(c) PROVE Pending(c)'
      <4>1. Len(vWorkQueue) + 1 \in next' + 1 .. Len(vWorkQueue')
        BY <2>1, <2>2, <2>3, <3>2
      <4> QED
        BY <3>2, <3>6, <4>1 DEF Pending
    <3>7. ASSUME NEW c, MissingInputs(Pool, c), t \notin Prevs(c) PROVE MissingInputs(Pool, c)'
      BY <2>4, <3>1, <3>7 DEF MissingInputs, HaveCoins, Pool
    <3>8. ASSUME NEW c \in orphanTxs' \ vEraseQueue', Prevs(c) \cap Queue' # {}
          PROVE  (Pending(c) \/ MissingInputs(Pool, c))'
      <4>1. c \in orphanTxs \ vEraseQueue /\ c # t
        BY <2>1, <2>5
      <4>2. CASE t \in Prevs(c)
        BY <3>6, <4>2
      <4>3. CASE t \notin Prevs(c)
        <5>1. Pending(c) \/ MissingInputs(Pool, c)
          BY <2>2, <3>3, <3>8, <4>1, <4>3
        <5> QED
          BY <3>5, <3>7, <4>1, <4>3, <5>1
      <4> QED
        BY <4>2, <4>3
    <3>9. /\ mi' \subseteq orphansByPrev'[vWorkQueue'[next']]
          /\ Queue' \subseteq mapTx' /\ vEraseQueue' \cap mapTx' \subseteq Queue'
      BY <2>1, <2>2, <2>5, <3>1, <3>3, <3>4
    <3>10. ASSUME NEW u \in mapTx', Prevs(u) \cap Queue' # {} PROVE u \in Queue'
      BY <2>2, <3>1, <3>3, <3>10
    <3> QED
      BY <2>1, <2>2, <3>4, <3>8, <3>9, <3>10 DEF QueueInv
  <2>6. CASE /\ vEraseQueue' = IF RefusedOutright(Pool, t) \/ ~MissingInputs(Pool, t)
                               THEN vEraseQueue \cup {t} ELSE vEraseQueue
             /\ UNCHANGED <<poolVars, vWorkQueue>>
    <3>1. vEraseQueue' = vEraseQueue \cup {t} \/ (vEraseQueue' = vEraseQueue /\ MissingInputs(Pool, t))
      BY <2>6
    <3>2. vWorkQueue' = vWorkQueue /\ mapTx' = mapTx /\ Queue' = Queue /\ Pool' = Pool
      BY <2>6 DEF poolVars, Queue, Pool
    <3>3. \A c : MissingInputs(Pool, c)' = MissingInputs(Pool, c)
      BY <2>4, <3>2 DEF MissingInputs, HaveCoins
    <3>4. vWorkQueue[next] \in Queue /\ vWorkQueue[next] \in Txs
      BY <2>2, <2>3 DEF Queue
    <3>5. vWorkQueue[next] \in Prevs(t)
      BY <2>1, <2>2, <3>4 DEF OrphanInv
    <3>6. t \in mapTx => t \in Queue
      BY <2>2, <3>4, <3>5
    <3>7. ASSUME NEW c \in orphanTxs' \ vEraseQueue', Prevs(c) \cap Queue' # {}
          PROVE  (Pending(c) \/ MissingInputs(Pool, c))'
      <4>1. c \in orphanTxs \ vEraseQueue
        BY <2>1, <3>1
      <4>2. Pending(c) \/ MissingInputs(Pool, c)
        BY <2>2, <3>2, <3>7, <4>1
      <4>3. CASE c = t
        BY <3>1, <3>3, <4>3
      <4>4. CASE c # t
        <5>1. Pending(c) => Pending(c)'
          BY <2>1, <3>2, <4>4 DEF Pending
        <5> QED
          BY <3>3, <4>2, <5>1
      <4> QED
        BY <4>3, <4>4
    <3>8. vEraseQueue' \cap mapTx' \subseteq Queue'
      BY <2>2, <3>1, <3>2, <3>6
    <3> QED
      BY <2>1, <2>2, <3>2, <3>7, <3>8 DEF QueueInv
  <2> QED
    BY <1>2, <2>5, <2>6 DEF TryOrphan
<1>3. CASE NextParent
  <2>1. /\ pc = "tx" /\ mi = {} /\ next < Len(vWorkQueue) /\ next' = next + 1
        /\ mi' = orphansByPrev[vWorkQueue[next + 1]]
        /\ UNCHANGED <<ledgerVars, poolVars, orphanTxs, orphansByPrev, vWorkQueue, vEraseQueue>>
    BY <1>3 DEF NextParent, orphanVars
  <2>2. vWorkQueue \in Seq(Txs) /\ next \in Nat
    BY DEF TypeInv
  <2>3. mapTx' = mapTx /\ Queue' = Queue /\ Pool' = Pool
    BY <2>1 DEF poolVars, Queue, Pool
  <2>4. \A c : MissingInputs(Pool, c)' = MissingInputs(Pool, c)
    BY <2>1, <2>3 DEF MissingInputs, HaveCoins, HaveBelow, ledgerVars
  <2>5. ASSUME NEW c \in orphanTxs, Pending(c) PROVE Pending(c)'
    <3>1. PICK k \in next + 1 .. Len(vWorkQueue) : vWorkQueue[k] \in Prevs(c)
      BY <2>1, <2>5 DEF Pending
    <3>2. CASE k = next + 1
      <4>1. vWorkQueue[k] \in Txs /\ c \in Txs
        BY <2>2, <3>1 DEF TypeInv
      <4> QED
        BY <2>1, <3>1, <3>2, <4>1 DEF Pending, OrphanInv
    <3>3. CASE k # next + 1
      <4>1. k \in next' + 1 .. Len(vWorkQueue')
        BY <2>1, <2>2, <3>3
      <4> QED
        BY <2>1, <3>1, <4>1 DEF Pending
    <3> QED
      BY <3>2, <3>3
  <2>6. 1 <= next' /\ next' <= Len(vWorkQueue')
    BY <2>1, <2>2
  <2> QED
    BY <2>1, <2>3, <2>4, <2>5, <2>6 DEF QueueInv
<1>4. CASE UNCHANGED vars
  <2>1. UNCHANGED <<ledgerVars, poolVars, orphanTxs, orphansByPrev, pc, vWorkQueue, next, mi, vEraseQueue>>
    BY <1>4 DEF vars, orphanVars, queueVars
  <2>2. mapTx' = mapTx /\ Queue' = Queue /\ Pool' = Pool
    BY <2>1 DEF poolVars, Queue, Pool
  <2>3. \A c : MissingInputs(Pool, c)' = MissingInputs(Pool, c) /\ Pending(c)' = Pending(c)
    BY <2>1, <2>2 DEF MissingInputs, HaveCoins, HaveBelow, ledgerVars, Pending
  <2> QED
    BY <2>1, <2>2, <2>3 DEF QueueInv
<1>5. ASSUME pc' # "tx" PROVE QueueInv'
  BY <1>5 DEF QueueInv
<1>6. ASSUME NEW b \in Blocks \ {Genesis}, ConnectBlock(b) PROVE QueueInv'
  BY <1>5, <1>6 DEF ConnectBlock
<1>7. ASSUME NEW t \in Txs, StoreOrphan(t) \/ AcceptOwn(t) PROVE QueueInv'
  BY <1>5, <1>7 DEF StoreOrphan, AcceptOwn
<1>8. ASSUME DisconnectBlock \/ WriteChainState \/ UpdatePool \/ UpdateTip \/ EndTx \/ Crash
      PROVE  QueueInv'
  BY <1>5, <1>8 DEF DisconnectBlock, WriteChainState, UpdatePool, UpdateTip, EndTx, Crash
<1> QED
  BY <1>1, <1>2, <1>3, <1>4, <1>6, <1>7, <1>8 DEF Next

(* The inductive invariant holds.  The parts of it about inputs follow the  *)
(* pool through the blocks that connect and disconnect under it.            *)
THEOREM MemPoolInvariant == Spec => []IInv
<1>1. IInv /\ [Next]_vars => IInv'
  BY LedgerStep, TypeStep, PoolStep, OrphanStep, QueueStep DEF IInv
<1> QED
  BY <1>1, InitIInv, PTL DEF Spec

(* What CTxMemPool::check asserts of the inputs holds whenever no block is  *)
(* half way through the pool, on every chain, as long as no reorganisation  *)
(* goes as deep as a coinbase has to be to be spent.                        *)
THEOREM AlwaysInputsAvailable == Spec => []PoolInputsAvailable
<1>1. IInv => PoolInputsAvailable
  BY DEF IInv, PoolInv, LedgerInv, PoolInputsAvailable, AllFed, Fed, Pool
<1> QED
  BY <1>1, MemPoolInvariant, PTL

(* The index of the pool's inputs and the index of the orphans' parents     *)
(* never disagree with what they index.                                     *)
THEOREM AlwaysIndexesExact == Spec => []IndexesExact
<1>1. IInv => IndexesExact
  BY DEF IInv, PoolInv, OrphanInv, IndexesExact, PoolGood, Pool
<1> QED
  BY <1>1, MemPoolInvariant, PTL

(* A connected transaction takes only its conflicts and their descendants   *)
(* out of the pool.                                                         *)
THEOREM OnlyConflictsAlways == Spec => OnlyConflictsDropped
<1>1. ASSUME IInv, UpdatePool, Connected, NEW t \in mapTx \ (mapTx' \cup {tx})
      PROVE  \/ Ins(t) \cap Ins(tx) # {}
             \/ Prevs(t) \cap (mapTx \ (mapTx' \cup {tx})) # {}
  <2>1. PoolGood(Pool) /\ block \in Blocks /\ nTx \in Nat \ {0} /\ Pool.txs = mapTx
    BY <1>1 DEF IInv, PoolInv, TypeInv, Pool
  <2>2. nTx \in 1 .. Len(vtx[block])
    BY <1>1, <2>1, TxsOfIn DEF UpdatePool
  <2>3. tx \in Txs
    BY <2>1, <2>2, TxInBlock DEF tx
  <2> DEFINE r == AfterConnect(Pool, tx)
  <2>4. mapTx' = r.txs
    BY <1>1 DEF UpdatePool, SetPool
  <2>5. \A u \in Pool.txs \ (r.txs \cup {tx}) :
           \/ Ins(u) \cap Ins(tx) # {}
           \/ Prevs(u) \cap (Pool.txs \ (r.txs \cup {tx})) # {}
    BY <2>1, <2>3, AfterConnectFacts
  <2> HIDE DEF r
  <2> QED
    BY <1>1, <2>1, <2>4, <2>5
<1>2. IInv /\ [Next]_vars =>
        [UpdatePool /\ Connected =>
           \A t \in mapTx \ (mapTx' \cup {tx}) :
               \/ Ins(t) \cap Ins(tx) # {}
               \/ Prevs(t) \cap (mapTx \ (mapTx' \cup {tx})) # {}]_vars
  BY <1>1
<1> QED
  BY <1>2, MemPoolInvariant, PTL DEF Spec, OnlyConflictsDropped

(* No orphan whose inputs are all there is left behind by the message that  *)
(* brought the last of its parents.                                         *)
THEOREM OrphansAlwaysFollow == Spec => OrphansFollow
<1>1. ASSUME IInv, EndTx, NEW t \in orphanTxs', Prevs(t) \cap vEraseQueue \cap mapTx # {}
      PROVE  MissingInputs(Pool, t)
  <2>1. pc = "tx" /\ mi = {} /\ next = Len(vWorkQueue) /\ t \in orphanTxs \ vEraseQueue
    BY <1>1 DEF EndTx, SetOrphans, WithoutOrphans
  <2>2. ~Pending(t)
    BY <2>1, <1>1 DEF Pending, IInv, TypeInv
  <2> QED
    BY <1>1, <2>1, <2>2 DEF IInv, QueueInv
<1>2. IInv /\ [Next]_vars =>
        [EndTx => \A t \in orphanTxs' : Prevs(t) \cap vEraseQueue \cap mapTx # {} =>
                     MissingInputs(Pool, t)]_vars
  BY <1>1
<1> QED
  BY <1>2, MemPoolInvariant, PTL DEF Spec, OrphansFollow

-----------------------------------------------------------------------------
(* The history of a chain. *)

(* The chain of b: the least set with b and the parents of its members.     *)
Closed(S) == \A x \in S \ {Genesis} : Parent[x] \in S
Chain(b) == {a \in Blocks : \A S \in SUBSET Blocks : b \in S /\ Closed(S) => a \in S}

(* The transactions of its blocks, but for the genesis block's.             *)
ChainTxs(b) == UNION {TxsOf(a) : a \in Chain(b) \ {Genesis}}

(* The coinbases of a chain differ, as they do when each starts with the    *)
(* height of its block (main.cpp:2999).                                     *)
CoinbasesDiffer ==
    \A b \in Blocks \ {Genesis} : \A a \in Chain(Parent[b]) \ {Genesis} : vtx[a][1] # vtx[b][1]

(* What a transaction of the chain of b has spent is of that chain and      *)
(* stays spent, and what is unspent is of that chain.                       *)
History(b) ==
    /\ \A t \in ChainTxs(b) : \A o \in Ins(t) :
          o[1] \in ChainTxs(b) /\ o[2] \notin Utxo[b][o[1]].outs
    /\ \A q \in Txs : Utxo[b][q].outs # {} => q \in ChainTxs(b)

Traced(b) ==
    \E A \in SUBSET Blocks :
        /\ b \in A
        /\ \A a \in A : History(a) /\ (a # Genesis => Valid(a) /\ Parent[a] \in A)

(* A set of numbers has a least one.                                        *)
LEMMA LeastNat ==
    ASSUME NEW T, T \subseteq Nat, T # {}
    PROVE  \E x \in T : \A y \in T : x <= y
<1>1. IsWellFoundedOn(OpToRel(<, Nat), Nat)
  BY NatLessThanWellFounded
<1>2. \A x, y \in Nat : <<y, x>> \in OpToRel(<, Nat) <=> y < x
  BY DEF OpToRel
<1>3. PICK R : R = OpToRel(<, Nat)
  OBVIOUS
<1>4. IsWellFoundedOn(R, Nat) /\ \A x, y \in Nat : <<y, x>> \in R <=> y < x
  BY <1>1, <1>2, <1>3, Zenon
<1>5. PICK x \in T : \A y \in T : ~ (<<y, x>> \in R)
  BY <1>4, WFMin
<1>6. ASSUME NEW y \in T, ~(x <= y) PROVE FALSE
  <2>1. x \in Nat /\ y \in Nat
    OBVIOUS
  <2>2. y < x
    BY <1>6, <2>1
  <2>3. <<y, x>> \in R
    BY <1>4, <2>1, <2>2
  <2> QED
    BY <1>5, <2>3
<1> QED
  BY <1>6

LEMMA ChainFacts ==
    /\ Chain(Genesis) = {Genesis}
    /\ \A b \in Blocks \ {Genesis} : Chain(b) = Chain(Parent[b]) \cup {b}
<1>1. \A b \in Blocks \ {Genesis} : Parent[b] \in Blocks
  BY TreeAssumption
<1>2. ASSUME NEW b \in Blocks
      PROVE  /\ b \in Chain(b) /\ Chain(b) \subseteq Blocks
             /\ \A x \in Chain(b) \ {Genesis} : Parent[x] \in Chain(b)
             /\ \A S \in SUBSET Blocks : b \in S /\ Closed(S) => Chain(b) \subseteq S
  <2>1. b \in Chain(b) /\ Chain(b) \subseteq Blocks
    BY DEF Chain
  <2>2. ASSUME NEW x \in Chain(b) \ {Genesis} PROVE Parent[x] \in Chain(b)
    <3>1. x \in Blocks /\ Parent[x] \in Blocks
      BY <1>1, <2>1
    <3>2. ASSUME NEW S \in SUBSET Blocks, b \in S, Closed(S) PROVE Parent[x] \in S
      <4>1. x \in S
        BY <3>2 DEF Chain
      <4> QED
        BY <3>2, <4>1 DEF Closed
    <3> QED
      BY <3>1, <3>2 DEF Chain
  <2>3. \A S \in SUBSET Blocks : b \in S /\ Closed(S) => Chain(b) \subseteq S
    BY DEF Chain
  <2> QED
    BY <2>1, <2>2, <2>3
<1>3. Chain(Genesis) = {Genesis}
  <2>1. Genesis \in Blocks /\ {Genesis} \in SUBSET Blocks /\ Closed({Genesis})
    BY TreeAssumption DEF Closed
  <2> QED
    BY <1>2, <2>1
<1>4. ASSUME NEW b \in Blocks \ {Genesis} PROVE Chain(b) = Chain(Parent[b]) \cup {b}
  <2> DEFINE P == Parent[b]
             S == Chain(P) \cup {b}
  <2>1. P \in Blocks
    BY <1>1
  <2>2. S \in SUBSET Blocks /\ b \in S
    BY <1>2, <2>1
  <2>3. P \in Chain(P) /\ \A x \in Chain(P) \ {Genesis} : Parent[x] \in Chain(P)
    BY <1>2, <2>1
  <2>4. Closed(S)
    BY <2>3 DEF Closed
  <2>5. Chain(b) \subseteq S
    BY <1>2, <2>2, <2>4
  <2>6. b \in Chain(b) /\ Chain(b) \in SUBSET Blocks /\ P \in Chain(b)
    BY <1>2
  <2>7. Closed(Chain(b))
    BY <1>2 DEF Closed
  <2>8. Chain(P) \subseteq Chain(b)
    BY <1>2, <2>1, <2>6, <2>7
  <2> QED
    BY <2>5, <2>6, <2>8
<1> QED
  BY <1>3, <1>4

LEMMA ChainTxsFacts ==
    /\ ChainTxs(Genesis) = {}
    /\ \A b \in Blocks \ {Genesis} : ChainTxs(b) = ChainTxs(Parent[b]) \cup TxsOf(b)
    /\ \A b \in Blocks : ChainTxs(b) \subseteq Txs
<1>1. ChainTxs(Genesis) = {}
  BY ChainFacts DEF ChainTxs
<1>2. ASSUME NEW b \in Blocks \ {Genesis} PROVE ChainTxs(b) = ChainTxs(Parent[b]) \cup TxsOf(b)
  <2>1. Chain(b) \ {Genesis} = (Chain(Parent[b]) \ {Genesis}) \cup {b}
    BY ChainFacts
  <2> QED
    BY <2>1 DEF ChainTxs
<1>3. ASSUME NEW b \in Blocks PROVE ChainTxs(b) \subseteq Txs
  <2>1. \A a \in Chain(b) : TxsOf(a) \subseteq Txs
    BY TxsOfIn DEF Chain
  <2> QED
    BY <2>1 DEF ChainTxs
<1> QED
  BY <1>1, <1>2, <1>3

(* Where the inputs of a valid block's transaction come from: an earlier    *)
(* transaction of the block, or the coins of its parent; and no other       *)
(* transaction of the block spends them.                                    *)
LEMMA BlockInputs ==
    ASSUME NEW b \in Blocks \ {Genesis}, Valid(b), NEW i \in 1 .. Len(vtx[b]),
           NEW o \in Ins(vtx[b][i])
    PROVE  /\ o[2] \in vout[o[1]]
           /\ o[1] \in TxsOf(b) => \E m \in 1 .. Len(vtx[b]) : m < i /\ o[1] = vtx[b][m]
           /\ o[1] \notin TxsOf(b) =>
                 /\ o[2] \in Utxo[Parent[b]][o[1]].outs
                 /\ o[1] \in Coinbases =>
                       Height[b] - Utxo[Parent[b]][o[1]].nHeight >= GetCoinbaseMaturity(Height[b])
           /\ \A k \in 1 .. Len(vtx[b]) : k < i => o \notin Ins(vtx[b][k])
           /\ o[2] \notin Utxo[b][o[1]].outs
<1> DEFINE t == vtx[b][i]
           L == Len(vtx[b])
           q == o[1]
           n == o[2]
           u == Utxo[Parent[b]][q]
           c == PartialUtxo(b, i, 0)[q]
<1>1. t \in Txs /\ t \in TxsOf(b) /\ L \in Nat /\ i \in Nat /\ i <= L
  BY TxInBlock, TxsOfIn
<1>2. q \in Txs /\ n \in Nat /\ o = <<q, n>>
  BY <1>1, InsFacts
<1>3. PICK m \in 1 .. Len(vin[t]) : vin[t][m] = o
  BY DEF Ins
<1>4. n \in c.outs /\ (q \in Coinbases => Height[b] - c.nHeight >= GetCoinbaseMaturity(Height[b]))
  BY <1>3 DEF Valid, InputsOK
<1>5. \A O, h : Coin(O, h).outs = O /\ (O # {} => Coin(O, h).nHeight = h)
  BY DEF Coin, Pruned
<1>6. c = IF q \in Created(b, i)
          THEN Coin(vout[q] \ Spent(b, i, 0, q), Height[b])
          ELSE Coin(u.outs \ Spent(b, i, 0, q), u.nHeight)
  BY <1>2 DEF PartialUtxo
<1>7. u.outs \subseteq vout[q] /\ (q \in TxsOf(b) => u.outs = {})
  <2>1. Parent[b] \in Blocks
    BY TreeAssumption
  <2>2. u.outs \subseteq vout[q]
    BY <1>2, <2>1, CoinsOf
  <2>3. q \in TxsOf(b) => u.outs = {}
    BY <1>2, BlockEffect
  <2> QED
    BY <2>2, <2>3
<1>8. n \in vout[q] /\ n \notin Spent(b, i, 0, q) /\ (q \notin Created(b, i) => n \in u.outs)
  <2>1. CASE q \in Created(b, i)
    <3>1. c = Coin(vout[q] \ Spent(b, i, 0, q), Height[b])
      BY <1>6, <2>1
    <3>2. c.outs = vout[q] \ Spent(b, i, 0, q)
      BY <1>5, <3>1
    <3> QED
      BY <1>4, <2>1, <3>2
  <2>2. CASE q \notin Created(b, i)
    <3>1. c = Coin(u.outs \ Spent(b, i, 0, q), u.nHeight)
      BY <1>6, <2>2
    <3>2. c.outs = u.outs \ Spent(b, i, 0, q)
      BY <1>5, <3>1
    <3> QED
      BY <1>4, <1>7, <2>2, <3>2
  <2> QED
    BY <2>1, <2>2
<1>9. q \in TxsOf(b) => \E k \in 1 .. L : k < i /\ q = vtx[b][k]
  <2> SUFFICES ASSUME q \in TxsOf(b) PROVE \E k \in 1 .. L : k < i /\ q = vtx[b][k]
    OBVIOUS
  <2>1. q \in Created(b, i)
    BY <1>7, <1>8
  <2>2. PICK k \in 1 .. i - 1 : q = vtx[b][k]
    BY <2>1 DEF Created
  <2>3. k \in 1 .. L /\ k < i
    BY <1>1
  <2> QED
    BY <2>2, <2>3
<1>10. ASSUME q \notin TxsOf(b)
       PROVE  n \in u.outs /\ (q \in Coinbases => Height[b] - u.nHeight >= GetCoinbaseMaturity(Height[b]))
  <2>1. q \notin Created(b, i)
    BY <1>10 DEF Created, TxsOf
  <2>2. PICK O : O = u.outs \ Spent(b, i, 0, q)
    OBVIOUS
  <2>3. n \in u.outs /\ n \in O
    BY <1>8, <2>1, <2>2
  <2>4. PICK h : h = u.nHeight
    OBVIOUS
  <2>5. c = Coin(O, h)
    BY <1>6, <2>1, <2>2, <2>4
  <2>6. c.nHeight = h
    BY <1>5, <2>3, <2>5
  <2> QED
    BY <1>4, <2>3, <2>4, <2>6
<1>11. ASSUME NEW k \in 1 .. L, k < i, o \in Ins(vtx[b][k]) PROVE FALSE
  <2>1. PICK j \in 1 .. Len(vin[vtx[b][k]]) : vin[vtx[b][k]][j] = <<q, n>>
    BY <1>2, <1>11 DEF Ins
  <2>2. n \in Spent(b, i, 0, q)
    BY <1>8, <1>11, <2>1 DEF Spent
  <2> QED
    BY <1>8, <2>2
<1>12. n \notin Utxo[b][q].outs
  <2> DEFINE S == Spent(b, L + 1, 0, q)
  <2>1. i < L + 1
    BY <1>1
  <2>2. n \in S
    BY <1>2, <1>3, <1>8, <2>1 DEF Spent
  <2>3. Utxo[b] = PartialUtxo(b, L + 1, 0)
    BY UtxoAssumption
  <2>4. Utxo[b][q] = IF q \in Created(b, L + 1)
                     THEN Coin(vout[q] \ S, Height[b]) ELSE Coin(u.outs \ S, u.nHeight)
    BY <1>2, <2>3 DEF PartialUtxo
  <2> HIDE DEF S
  <2>5. Utxo[b][q].outs = vout[q] \ S \/ Utxo[b][q].outs = u.outs \ S
    BY <1>5, <2>4
  <2> QED
    BY <2>2, <2>5
<1> QED
  BY <1>8, <1>9, <1>10, <1>11, <1>12

LEMMA DistinctInBlock ==
    ASSUME NEW b \in Blocks \ {Genesis}, NEW i \in 1 .. Len(vtx[b]), NEW k \in 1 .. Len(vtx[b]),
           vtx[b][i] = vtx[b][k]
    PROVE  i = k
BY TxAssumption

(* No transaction is twice in a chain: its first repeated transaction would *)
(* spend what is spent already, or be a coinbase.                           *)
LEMMA NoRepeats ==
    ASSUME CoinbasesDiffer, NEW b \in Blocks \ {Genesis}, Valid(b), History(Parent[b])
    PROVE  TxsOf(b) \cap ChainTxs(Parent[b]) = {}
<1> DEFINE P == Parent[b]
           T == {i \in 1 .. Len(vtx[b]) : vtx[b][i] \in ChainTxs(P)}
<1> SUFFICES ASSUME NEW x \in TxsOf(b), x \in ChainTxs(P) PROVE FALSE
  OBVIOUS
<1>1. T # {} /\ T \subseteq Nat
  BY TxsOfIn DEF TxsOf
<1>2. PICK i \in T : \A k \in T : i <= k
  BY <1>1, LeastNat
<1> DEFINE t == vtx[b][i]
<1>3. i \in 1 .. Len(vtx[b]) /\ t \in ChainTxs(P) /\ i \in Nat
  BY <1>1
<1>4. P \in Blocks /\ t \in Txs
  BY <1>3, TxInBlock, TreeAssumption
<1>5. CASE t \in Coinbases
  <2>1. i = 1
    BY <1>3, <1>5, TxAssumption
  <2>2. PICK a \in Chain(P) \ {Genesis} : t \in TxsOf(a)
    BY <1>3 DEF ChainTxs
  <2>3. a \in Blocks \ {Genesis}
    BY <2>2 DEF Chain
  <2>4. PICK k \in 1 .. Len(vtx[a]) : vtx[a][k] = t
    BY <2>2 DEF TxsOf
  <2>5. k = 1
    BY <1>5, <2>3, <2>4, TxAssumption
  <2>6. vtx[a][1] # vtx[b][1]
    BY <2>2 DEF CoinbasesDiffer
  <2> QED
    BY <2>1, <2>4, <2>5, <2>6
<1>6. CASE t \notin Coinbases
  <2>1. vin[t] # <<>> /\ vin[t] \in Seq(Txs \X Nat)
    BY <1>4, <1>6, TxAssumption
  <2>2. 1 \in 1 .. Len(vin[t])
    BY <2>1
  <2>3. PICK o \in Ins(t) : TRUE
    BY <2>2 DEF Ins
  <2>4. o[1] \in ChainTxs(P) /\ o[2] \notin Utxo[P][o[1]].outs
    BY <1>3 DEF History
  <2>5. o[1] \in TxsOf(b)
    BY <1>3, <2>4, BlockInputs
  <2>6. PICK m \in 1 .. Len(vtx[b]) : m < i /\ o[1] = vtx[b][m]
    BY <1>3, <2>5, BlockInputs
  <2>7. m \in T
    BY <2>4, <2>6
  <2>8. m \in Nat /\ i <= m
    BY <1>2, <2>7
  <2> QED
    BY <1>3, <2>6, <2>8
<1> QED
  BY <1>5, <1>6

LEMMA HistoryGrows ==
    ASSUME CoinbasesDiffer, NEW b \in Blocks \ {Genesis}, Valid(b), History(Parent[b])
    PROVE  History(b)
<1> DEFINE P == Parent[b]
<1>1. P \in Blocks /\ ChainTxs(b) = ChainTxs(P) \cup TxsOf(b) /\ ChainTxs(b) \subseteq Txs
  BY ChainTxsFacts, TreeAssumption
<1>2. TxsOf(b) \cap ChainTxs(P) = {}
  BY NoRepeats
<1>3. ASSUME NEW q \in Txs, Utxo[b][q].outs # {} PROVE q \in ChainTxs(b)
  <2>1. CASE q \in TxsOf(b)
    BY <1>1, <2>1
  <2>2. CASE q \notin TxsOf(b)
    <3>1. Utxo[P][q].outs # {}
      BY <1>3, <2>2, BlockEffect
    <3> QED
      BY <1>1, <3>1 DEF History
  <2> QED
    BY <2>1, <2>2
<1>4. ASSUME NEW t \in ChainTxs(P), NEW o \in Ins(t)
      PROVE  o[1] \in ChainTxs(b) /\ o[2] \notin Utxo[b][o[1]].outs
  <2>1. o[1] \in ChainTxs(P) /\ o[2] \notin Utxo[P][o[1]].outs
    BY DEF History
  <2>2. o[1] \in Txs /\ o[1] \notin TxsOf(b)
    BY <1>1, <1>2, <2>1
  <2>3. Utxo[b][o[1]].outs \subseteq Utxo[P][o[1]].outs
    BY <2>2, BlockEffect
  <2> QED
    BY <1>1, <2>1, <2>3
<1>5. ASSUME NEW t \in TxsOf(b), NEW o \in Ins(t)
      PROVE  o[1] \in ChainTxs(b) /\ o[2] \notin Utxo[b][o[1]].outs
  <2>1. PICK i \in 1 .. Len(vtx[b]) : vtx[b][i] = t
    BY DEF TxsOf
  <2>2. o[2] \notin Utxo[b][o[1]].outs
        /\ (o[1] \notin TxsOf(b) => o[2] \in Utxo[P][o[1]].outs)
    BY <2>1, BlockInputs
  <2>3. o[1] \in Txs
    BY <1>1, InsFacts
  <2>4. o[1] \in ChainTxs(b)
    BY <1>1, <2>2, <2>3 DEF History
  <2> QED
    BY <2>2, <2>4
<1>6. \A t \in ChainTxs(b) : \A o \in Ins(t) :
         o[1] \in ChainTxs(b) /\ o[2] \notin Utxo[b][o[1]].outs
  BY <1>1, <1>4, <1>5
<1> QED
  BY <1>3, <1>6 DEF History

LEMMA TracedFacts ==
    /\ Traced(Genesis)
    /\ \A b : Traced(b) => b \in Blocks /\ History(b)
    /\ \A b \in Blocks \ {Genesis} : Traced(b) => Valid(b) /\ Traced(Parent[b])
    /\ CoinbasesDiffer =>
         \A b \in Blocks \ {Genesis} : Valid(b) /\ Traced(Parent[b]) => Traced(b)
<1>1. Traced(Genesis)
  <2>1. Genesis \in Blocks /\ \A q \in Txs : Utxo[Genesis][q] = Pruned
    BY TreeAssumption, UtxoAssumption
  <2>2. History(Genesis)
    BY <2>1, ChainTxsFacts DEF History, Pruned
  <2>3. {Genesis} \in SUBSET Blocks
    BY <2>1
  <2> QED
    BY <2>2, <2>3 DEF Traced
<1>2. ASSUME NEW b, Traced(b) PROVE b \in Blocks /\ History(b)
  BY <1>2 DEF Traced
<1>3. ASSUME NEW b \in Blocks \ {Genesis}, Traced(b) PROVE Valid(b) /\ Traced(Parent[b])
  <2>1. PICK A \in SUBSET Blocks :
           /\ b \in A
           /\ \A a \in A : History(a) /\ (a # Genesis => Valid(a) /\ Parent[a] \in A)
    BY <1>3 DEF Traced
  <2> QED
    BY <2>1 DEF Traced
<1>4. ASSUME CoinbasesDiffer, NEW b \in Blocks \ {Genesis}, Valid(b), Traced(Parent[b])
      PROVE  Traced(b)
  <2>1. PICK A \in SUBSET Blocks :
           /\ Parent[b] \in A
           /\ \A a \in A : History(a) /\ (a # Genesis => Valid(a) /\ Parent[a] \in A)
    BY <1>4 DEF Traced
  <2>2. History(b)
    BY <1>4, <2>1, HistoryGrows
  <2>3. /\ A \cup {b} \in SUBSET Blocks /\ b \in A \cup {b}
        /\ \A a \in A \cup {b} :
              History(a) /\ (a # Genesis => Valid(a) /\ Parent[a] \in A \cup {b})
    BY <1>4, <2>1, <2>2
  <2> QED
    BY <2>3 DEF Traced
<1> QED
  BY <1>1, <1>2, <1>3, <1>4

-----------------------------------------------------------------------------
(* The pool beside the history of the chain. *)

(* The pool and the chain have no transaction in common.                    *)
Apart(p, b) == p.txs \cap ChainTxs(b) = {}

ApartConnecting(p, b, n) ==
    /\ Apart(p, Parent[b])
    /\ \A k \in 1 .. Len(vtx[b]) : k < n => vtx[b][k] \notin p.txs

ApartDisconnecting(p, b, n) ==
    /\ Apart(p, Parent[b])
    /\ \A k \in 1 .. Len(vtx[b]) : k >= n =>
          /\ vtx[b][k] \notin p.txs
          /\ \A u \in p.txs : Ins(u) \cap Ins(vtx[b][k]) = {}

(* The transactions of b before n are back in the pool, or wait for one of  *)
(* the block that is not.                                                   *)
Restored(p, b, n) ==
    \A i \in 1 .. Len(vtx[b]) : i < n /\ vtx[b][i] \notin Coinbases \cup NonStandard =>
        vtx[b][i] \in p.txs \/ Prevs(vtx[b][i]) \cap (TxsOf(b) \ p.txs) # {}

HistoryInv ==
    /\ Traced(best) /\ Traced(saved)
    /\ Settled => Apart(Pool, best)
    /\ pc = "write" => nTx = 1
    /\ ~Settled =>
          /\ Valid(block) /\ Traced(block)
          /\ best = block => ApartConnecting(Pool, block, nTx)
          /\ best # block =>
                /\ ApartDisconnecting(Pool, block, nTx)
                /\ pc = "updated" /\ emptied = {} => Restored(Pool, block, nTx)

LEMMA ApartAccept ==
    ASSUME NEW p, PoolGood(p), best \in Blocks, coins = Utxo[best], History(best),
           Apart(p, best), NEW t \in Txs, AcceptsTo(p, t)
    PROVE  Apart(addUnchecked(p, t), best)
<1>1. t \notin Coinbases /\ \A o \in Ins(t) : Available(p, o)
  BY DEF AcceptsTo, RefusedOutright
<1>2. ASSUME t \in ChainTxs(best) PROVE FALSE
  <2>1. vin[t] # <<>> /\ vin[t] \in Seq(Txs \X Nat)
    BY <1>1, TxAssumption
  <2>2. 1 \in 1 .. Len(vin[t])
    BY <2>1
  <2>3. PICK o \in Ins(t) : TRUE
    BY <2>2 DEF Ins
  <2>4. o[1] \in ChainTxs(best) /\ o[2] \notin Utxo[best][o[1]].outs
    BY <1>2 DEF History
  <2>5. o[1] \notin p.txs
    BY <2>4 DEF Apart
  <2> QED
    BY <1>1, <2>4, <2>5 DEF Available
<1>3. addUnchecked(p, t).txs = p.txs \cup {t}
  BY DEF addUnchecked
<1> QED
  BY <1>2, <1>3 DEF Apart

LEMMA ApartEntry ==
    ASSUME NEW b \in Blocks \ {Genesis}, NEW p, PoolGood(p)
    PROVE  /\ Apart(p, Parent[b]) => ApartConnecting(p, b, 1)
           /\ History(b) /\ AllFed(p, b) /\ Apart(p, b) => ApartDisconnecting(p, b, 1)
<1>1. Apart(p, Parent[b]) => ApartConnecting(p, b, 1)
  BY TxsOfIn DEF ApartConnecting
<1>2. ASSUME History(b), AllFed(p, b), Apart(p, b) PROVE ApartDisconnecting(p, b, 1)
  <2>1. ChainTxs(b) = ChainTxs(Parent[b]) \cup TxsOf(b)
    BY ChainTxsFacts
  <2>2. ASSUME NEW k \in 1 .. Len(vtx[b])
        PROVE  /\ vtx[b][k] \notin p.txs
               /\ \A u \in p.txs : Ins(u) \cap Ins(vtx[b][k]) = {}
    <3>1. vtx[b][k] \in ChainTxs(b)
      BY <2>1, TxInBlock
    <3>2. ASSUME NEW u \in p.txs, NEW o \in Ins(u), o \in Ins(vtx[b][k]) PROVE FALSE
      <4>1. o[1] \in ChainTxs(b) /\ o[2] \notin Utxo[b][o[1]].outs
        BY <1>2, <3>1, <3>2 DEF History
      <4>2. o[1] \notin p.txs
        BY <1>2, <4>1 DEF Apart
      <4> QED
        BY <1>2, <4>1, <4>2 DEF AllFed, Fed
    <3> QED
      BY <1>2, <3>1, <3>2 DEF Apart
  <2> QED
    BY <1>2, <2>1, <2>2 DEF ApartDisconnecting, Apart
<1> QED
  BY <1>1, <1>2

LEMMA ApartExit ==
    ASSUME NEW b \in Blocks \ {Genesis}, NEW p, NEW n \in Nat, n > Len(vtx[b])
    PROVE  /\ ApartConnecting(p, b, n) => Apart(p, b)
           /\ ApartDisconnecting(p, b, n) => Apart(p, Parent[b])
<1>1. ASSUME ApartConnecting(p, b, n) PROVE Apart(p, b)
  <2>1. ChainTxs(b) = ChainTxs(Parent[b]) \cup TxsOf(b)
    BY ChainTxsFacts
  <2>2. ASSUME NEW x \in TxsOf(b) PROVE x \notin p.txs
    <3>1. PICK k \in 1 .. Len(vtx[b]) : x = vtx[b][k]
      BY DEF TxsOf
    <3>2. k < n
      BY TxsOfIn
    <3> QED
      BY <1>1, <3>1, <3>2 DEF ApartConnecting
  <2> QED
    BY <1>1, <2>1, <2>2 DEF ApartConnecting, Apart
<1> QED
  BY <1>1 DEF ApartDisconnecting

LEMMA ApartConnectStep ==
    ASSUME NEW b \in Blocks \ {Genesis}, NEW p, PoolGood(p), NEW n \in 1 .. Len(vtx[b]),
           ApartConnecting(p, b, n)
    PROVE  ApartConnecting(AfterConnect(p, vtx[b][n]), b, n + 1)
<1> DEFINE t == vtx[b][n]
           r == AfterConnect(p, t)
<1>1. r.txs \subseteq p.txs \ {t}
  BY TxInBlock, AfterConnectFacts
<1> HIDE DEF r
<1>2. ASSUME NEW k \in 1 .. Len(vtx[b]), k < n + 1 PROVE vtx[b][k] \notin r.txs
  <2>1. k = n \/ k < n
    BY <1>2, TxsOfIn
  <2> QED
    BY <1>1, <2>1 DEF ApartConnecting
<1>3. ApartConnecting(r, b, n + 1)
  BY <1>1, <1>2 DEF ApartConnecting, Apart
<1> QED
  BY <1>3 DEF r

(* What has returned to the pool does not descend from what comes later in  *)
(* the block.                                                               *)
LEMMA ReturnedStay ==
    ASSUME NEW b \in Blocks \ {Genesis}, Valid(b), History(Parent[b]), NEW p, PoolGood(p),
           NEW n \in 1 .. Len(vtx[b]), ApartDisconnecting(p, b, n),
           NEW i \in 1 .. Len(vtx[b]), i < n
    PROVE  vtx[b][i] \notin Descendants(p, {vtx[b][n]})
<1> DEFINE t == vtx[b][n]
           T == p.txs \ {vtx[b][k] : k \in {j \in 1 .. Len(vtx[b]) : j < n}}
<1>1. ASSUME NEW u \in Spenders(p, {t} \cup T) PROVE u \in T
  <2>1. u \in p.txs /\ Prevs(u) \cap ({t} \cup T) # {}
    BY SpendersFacts
  <2>2. SUFFICES ASSUME NEW k \in 1 .. Len(vtx[b]), k < n, u = vtx[b][k] PROVE FALSE
    BY <2>1
  <2>3. PICK q \in Prevs(u) : q \in {t} \cup T
    BY <2>1
  <2>4. u \in Txs
    BY <2>1 DEF PoolGood
  <2>5. q \in Txs /\ \E o \in Ins(u) : o[1] = q
    BY <2>4, PrevsFacts
  <2>6. PICK o \in Ins(u) : o[1] = q
    BY <2>5
  <2>7. CASE q \in TxsOf(b)
    <3>1. PICK m \in 1 .. Len(vtx[b]) : m < k /\ q = vtx[b][m]
      BY <2>2, <2>6, <2>7, BlockInputs
    <3>2. m < n /\ m # n
      BY <2>2, <3>1, TxsOfIn
    <3>3. q # t
      BY <3>1, <3>2, DistinctInBlock
    <3>4. q \notin T
      BY <3>1, <3>2
    <3> QED
      BY <2>3, <3>3, <3>4
  <2>8. CASE q \notin TxsOf(b)
    <3>1. o[2] \in Utxo[Parent[b]][q].outs
      BY <2>2, <2>6, <2>8, BlockInputs
    <3>2. q \in ChainTxs(Parent[b])
      BY <2>5, <3>1 DEF History
    <3>3. q \notin p.txs
      BY <3>2 DEF ApartDisconnecting, Apart
    <3>4. q # t
      BY <2>8, TxInBlock
    <3> QED
      BY <2>3, <3>3, <3>4
  <2> QED
    BY <2>7, <2>8
<1>2. T \in SUBSET p.txs /\ Spenders(p, {t} \cup T) \subseteq T
  BY <1>1
<1>3. Descendants(p, {t}) \subseteq T
  BY <1>2 DEF Descendants
<1>4. vtx[b][i] \notin T
  OBVIOUS
<1> QED
  BY <1>3, <1>4

(* The coinbases t spends are old enough for a block at height h.           *)
OldEnough(t, h) ==
    \A q \in Prevs(t) \cap Coinbases : h - coins[q].nHeight >= GetCoinbaseMaturity(h)

LEMMA MatureAt ==
    ASSUME best \in Blocks, coins = Utxo[best], NEW t \in Txs, OldEnough(t, Height[best] + 1)
    PROVE  Mature(t)
<1> SUFFICES ASSUME NEW q \in Prevs(t) \cap Coinbases
             PROVE  Height[best] + 1 - coins[q].nHeight >= GetCoinbaseMaturity(Height[best] + 1)
  BY Zenon DEF Mature
<1>1. PICK h : h = Height[best] + 1
  OBVIOUS
<1>2. PICK M : M = GetCoinbaseMaturity(Height[best] + 1)
  OBVIOUS
<1>3. PICK c : c = coins[q].nHeight
  OBVIOUS
<1>4. M = GetCoinbaseMaturity(h) /\ OldEnough(t, h)
  BY <1>1, <1>2
<1>5. h - c >= M
  BY <1>3, <1>4 DEF OldEnough
<1>6. Height[best] \in Nat /\ c \in Nat /\ M \in Nat
  BY <1>2, <1>3, PrevsFacts, CoinsOf, TreeAssumption, MaturityAssumption DEF GetCoinbaseMaturity
<1>7. Height[best] + 1 - c >= M
  BY <1>1, <1>5, <1>6
<1> QED
  BY <1>2, <1>3, <1>7

(* A transaction of the disconnected block is taken back once those of its  *)
(* parents that the block holds are.                                        *)
LEMMA TakenBack ==
    ASSUME NEW b \in Blocks \ {Genesis}, Valid(b), best = Parent[b], coins = Utxo[best],
           emptied = {}, NEW p, PoolGood(p), NEW n \in 1 .. Len(vtx[b]),
           ApartDisconnecting(p, b, n), vtx[b][n] \notin Coinbases \cup NonStandard,
           Prevs(vtx[b][n]) \cap (TxsOf(b) \ p.txs) = {}
    PROVE  AcceptsTo(p, vtx[b][n])
<1> DEFINE t == vtx[b][n]
<1>1. t \in Txs /\ t \in TxsOf(b) /\ best \in Blocks
  BY TxInBlock, TreeAssumption
<1>2. coins[t] = Pruned /\ t \notin p.txs
  <2>1. Utxo[Parent[b]][t] = Pruned
    BY DEF Valid
  <2>2. n >= n
    BY TxsOfIn
  <2> QED
    BY <2>1, <2>2 DEF ApartDisconnecting
<1>3. ASSUME NEW o \in Ins(t)
      PROVE  p.next[o] = NoTx /\ HaveCoins(p, o[1]) /\ Available(p, o)
  <2>1. o \in Outpoints /\ o[1] \in Txs /\ o[1] \in Prevs(t)
    BY <1>1, InsFacts
  <2>2. p.next[o] = NoTx
    <3>1. \A u \in p.txs : Ins(u) \cap Ins(t) = {}
      BY TxsOfIn DEF ApartDisconnecting
    <3>2. \A u \in Txs : p.next[o] # u
      BY <1>3, <2>1, <3>1 DEF PoolGood
    <3>3. p.next[o] \in Txs \cup {NoTx}
      BY <2>1 DEF PoolGood
    <3> QED
      BY <3>2, <3>3
  <2>3. CASE o[1] \in TxsOf(b)
    <3>1. o[1] \in p.txs
      BY <2>1, <2>3
    <3>2. Utxo[Parent[b]][o[1]].outs = {}
      BY <2>1, <2>3, BlockEffect
    <3>3. coins[o[1]] = Pruned
      BY <1>1, <2>1, <3>2, CoinsOf
    <3>4. o[2] \in vout[o[1]]
      BY BlockInputs
    <3> QED
      BY <2>2, <3>1, <3>3, <3>4 DEF HaveCoins, HaveBelow, Available
  <2>4. CASE o[1] \notin TxsOf(b)
    <3>1. o[2] \in coins[o[1]].outs
      BY <2>4, BlockInputs
    <3>2. coins[o[1]] # Pruned
      BY <3>1 DEF Pruned
    <3> QED
      BY <2>2, <3>1, <3>2 DEF HaveCoins, HaveBelow, Available
  <2> QED
    BY <2>3, <2>4
<1>4. ~RefusedOutright(p, t)
  BY <1>2, <1>3 DEF RefusedOutright, HaveCoins, HaveBelow
<1>5. ~MissingInputs(p, t)
  BY <1>1, <1>3, PrevsFacts DEF MissingInputs
<1>6. ASSUME NEW q \in Prevs(t) \cap Coinbases
      PROVE  Height[b] - coins[q].nHeight >= GetCoinbaseMaturity(Height[b])
  <2>1. PICK o \in Ins(t) : o[1] = q
    BY <1>1, PrevsFacts
  <2>2. q \notin TxsOf(b)
    BY DEF PoolGood
  <2> QED
    BY <2>1, <2>2, BlockInputs
<1>7. OldEnough(t, Height[b])
  BY <1>6 DEF OldEnough
<1>8. Mature(t)
  <2>1. Height[b] = Height[best] + 1
    BY ParentDiffers
  <2>2. OldEnough(t, Height[best] + 1)
    BY <1>7, <2>1
  <2> QED
    BY <1>1, <2>2, MatureAt
<1> QED
  BY <1>3, <1>4, <1>5, <1>8 DEF AcceptsTo

(* One step of the loop over a disconnected block.                          *)
LEMMA ReturnStep ==
    ASSUME NEW b \in Blocks \ {Genesis}, Valid(b), History(Parent[b]), CoinbasesDiffer,
           best = Parent[b], coins = Utxo[best],
           NEW p, PoolGood(p), NEW n \in 1 .. Len(vtx[b]), ApartDisconnecting(p, b, n)
    PROVE  LET r == AfterDisconnect(p, vtx[b][n]) IN
           /\ ApartDisconnecting(r, b, n + 1)
           /\ emptied = {} /\ Restored(p, b, n) => Restored(r, b, n + 1)
<1> DEFINE t == vtx[b][n]
           r == AfterDisconnect(p, t)
<1>1. t \in Txs /\ t \in TxsOf(b) /\ n \in Nat
  BY TxInBlock, TxsOfIn
<1>2. t \in Coinbases => ~AcceptsTo(p, t)
  BY DEF AcceptsTo, RefusedOutright
<1>3. \/ r = p /\ t \in Coinbases
      \/ r = addUnchecked(p, t) /\ t \notin Coinbases
      \/ r = RemoveRecursive(p, t) /\ t \notin Coinbases /\ ~AcceptsTo(p, t)
  BY <1>2 DEF AfterDisconnect
<1>4. addUnchecked(p, t).txs = p.txs \cup {t}
  BY DEF addUnchecked
<1>5. RemoveRecursive(p, t).txs = p.txs \ ({t} \cup Descendants(p, {t}))
  BY WithoutFacts DEF RemoveRecursive
<1>6. r.txs \subseteq p.txs \cup {t}
  BY <1>3, <1>4, <1>5
<1>7. r.txs \subseteq p.txs \/ (r.txs = p.txs \cup {t} /\ t \notin Coinbases)
  BY <1>3, <1>4, <1>5
<1>8. t \in Coinbases => r.txs = p.txs
  BY <1>3
<1>9. t \notin Coinbases => \/ r.txs = p.txs \cup {t}
                            \/ r.txs = p.txs \ ({t} \cup Descendants(p, {t})) /\ ~AcceptsTo(p, t)
  BY <1>3, <1>4, <1>5
<1> HIDE DEF r
<1>10. ApartDisconnecting(r, b, n + 1)
  <2>1. t \notin ChainTxs(Parent[b])
    BY <1>1, NoRepeats
  <2>2. Apart(r, Parent[b])
    BY <1>6, <2>1 DEF ApartDisconnecting, Apart
  <2>3. ASSUME NEW k \in 1 .. Len(vtx[b]), k >= n + 1
        PROVE  /\ vtx[b][k] \notin r.txs
               /\ \A u \in r.txs : Ins(u) \cap Ins(vtx[b][k]) = {}
    <3>1. k >= n /\ n < k /\ k # n
      BY <1>1, <2>3, TxsOfIn
    <3>2. vtx[b][k] # t
      BY <3>1, DistinctInBlock
    <3>3. Ins(t) \cap Ins(vtx[b][k]) = {}
      BY <3>1, BlockInputs
    <3>4. vtx[b][k] \notin p.txs /\ \A u \in p.txs : Ins(u) \cap Ins(vtx[b][k]) = {}
      BY <3>1 DEF ApartDisconnecting
    <3> QED
      BY <1>6, <3>2, <3>3, <3>4
  <2> QED
    BY <2>2, <2>3 DEF ApartDisconnecting
<1>11. ASSUME emptied = {}, Restored(p, b, n), NEW i \in 1 .. Len(vtx[b]), i < n + 1,
              vtx[b][i] \notin Coinbases \cup NonStandard
       PROVE  vtx[b][i] \in r.txs \/ Prevs(vtx[b][i]) \cap (TxsOf(b) \ r.txs) # {}
  <2> DEFINE x == vtx[b][i]
  <2>1. i = n \/ i < n
    BY <1>1, <1>11, TxsOfIn
  <2>2. CASE i < n
    <3>1. x \in p.txs \/ Prevs(x) \cap (TxsOf(b) \ p.txs) # {}
      BY <1>11, <2>2 DEF Restored
    <3>2. CASE x \in p.txs
      <4>1. x \notin Descendants(p, {t})
        BY <2>2, ReturnedStay
      <4>2. x # t
        BY <1>1, <2>2, DistinctInBlock
      <4> QED
        BY <1>8, <1>9, <3>2, <4>1, <4>2
    <3>3. ASSUME NEW q \in Prevs(x) \cap (TxsOf(b) \ p.txs) PROVE q \notin r.txs
      <4>1. PICK o \in Ins(x) : o[1] = q
        BY TxInBlock, PrevsFacts
      <4>2. PICK m \in 1 .. Len(vtx[b]) : m < i /\ q = vtx[b][m]
        BY <4>1, BlockInputs
      <4>3. m # n
        BY <1>1, <2>2, <4>2, TxsOfIn
      <4>4. q # t
        BY <4>2, <4>3, DistinctInBlock
      <4> QED
        BY <1>6, <4>4
    <3> QED
      BY <3>1, <3>2, <3>3
  <2>3. CASE i = n
    <3>1. CASE r.txs = p.txs \cup {t}
      BY <2>3, <3>1
    <3>2. CASE r.txs = p.txs \ ({t} \cup Descendants(p, {t})) /\ ~AcceptsTo(p, t)
      <4>1. Prevs(t) \cap (TxsOf(b) \ p.txs) # {}
        BY <1>11, <2>3, <3>2, TakenBack
      <4> QED
        BY <2>3, <3>2, <4>1
    <3> QED
      BY <1>9, <1>11, <2>3, <3>1, <3>2
  <2> QED
    BY <2>1, <2>2, <2>3
<1>12. emptied = {} /\ Restored(p, b, n) => Restored(r, b, n + 1)
  BY <1>11 DEF Restored
<1> QED
  BY <1>10, <1>12 DEF r

LEMMA HistoryStep ==
    ASSUME CoinbasesDiffer, IInv, HistoryInv, [Next]_vars
    PROVE  HistoryInv'
<1>0. /\ PoolGood(Pool)
      /\ Settled => AllFed(Pool, best)
      /\ best \in Blocks /\ coins = Utxo[best]
      /\ Traced(best) /\ Traced(saved) /\ History(best)
      /\ nTx \in Nat \ {0} /\ block \in Blocks
      /\ Settled => Apart(Pool, best)
      /\ ~Settled => block # Genesis /\ (best = block \/ best = Parent[block])
  BY TracedFacts DEF IInv, TypeInv, LedgerInv, PoolInv, HistoryInv
<1>1. ASSUME NEW b \in Blocks \ {Genesis}, ConnectBlock(b) PROVE HistoryInv'
  <2>1. /\ Parent[b] = best /\ Valid(b) /\ best' = b /\ saved' = saved
        /\ Settled /\ ~Settled'
        /\ block' = b /\ nTx' = 1 /\ Pool' = Pool
    BY <1>1 DEF ConnectBlock, Connect, MoveTo, Settled, Pool, poolVars
  <2>2. Traced(b)
    BY <1>0, <2>1, TracedFacts
  <2>3. ApartConnecting(Pool, b, 1)
    BY <1>0, <2>1, ApartEntry
  <2> QED
    BY <1>0, <2>1, <2>2, <2>3 DEF HistoryInv
<1>2. CASE DisconnectBlock
  <2>1. /\ best # Genesis /\ best' = Parent[best] /\ saved' = saved
        /\ Settled /\ ~Settled' /\ pc' # "updated"
        /\ block' = best /\ nTx' = 1 /\ Pool' = Pool
    BY <1>2 DEF DisconnectBlock, Disconnect, MoveTo, Settled, Pool, poolVars
  <2>2. Valid(best) /\ Traced(Parent[best])
    BY <1>0, <2>1, TracedFacts
  <2>3. ApartDisconnecting(Pool, best, 1)
    BY <1>0, <2>1, ApartEntry
  <2>4. Parent[best] # best
    BY <1>0, <2>1, ParentDiffers
  <2> QED
    BY <1>0, <2>1, <2>2, <2>3, <2>4 DEF HistoryInv
<1>3. CASE WriteChainState
  <2>1. /\ ~Settled /\ ~Settled' /\ best' = best /\ block' = block /\ nTx' = nTx /\ Pool' = Pool
        /\ saved' = saved \/ saved' = best
    BY <1>3 DEF WriteChainState, Save, ledgerVars, Settled, Pool, poolVars
  <2>2. nTx = 1 /\ pc' # "write"
    BY <1>3 DEF WriteChainState, HistoryInv
  <2>3. Restored(Pool, block, nTx)
    BY <2>2, TxsOfIn DEF Restored
  <2> QED
    BY <1>0, <2>1, <2>2, <2>3 DEF HistoryInv
<1>4. CASE UpdatePool
  <2>1. /\ pc = "updated" /\ pc' = "updated" /\ ~Settled /\ ~Settled' /\ block' = block /\ nTx' = nTx + 1
        /\ best' = best /\ saved' = saved /\ emptied' = emptied
    BY <1>4 DEF UpdatePool, Settled, ledgerVars
  <2>2. block \in Blocks \ {Genesis} /\ Valid(block) /\ Traced(block)
    BY <1>0, <2>1 DEF HistoryInv
  <2>3. nTx \in 1 .. Len(vtx[block])
    BY <1>0, <1>4, TxsOfIn DEF UpdatePool
  <2>4. tx \in Txs /\ tx = vtx[block][nTx]
    BY <2>2, <2>3, TxInBlock DEF tx
  <2>5. CASE best = block
    <3>1. Pool' = AfterConnect(Pool, tx)
      BY <1>4, <2>5, PoolShapes, SetPoolFacts DEF UpdatePool, Connected
    <3>2. ApartConnecting(Pool', block, nTx + 1)
      BY <1>0, <2>1, <2>2, <2>3, <2>4, <2>5, <3>1, ApartConnectStep DEF HistoryInv
    <3> QED
      BY <1>0, <2>1, <2>2, <2>5, <3>2 DEF HistoryInv
  <2>6. CASE best # block
    <3>1. best = Parent[block] /\ History(Parent[block])
      BY <1>0, <2>1, <2>6
    <3>2. /\ ApartDisconnecting(Pool, block, nTx)
          /\ emptied = {} => Restored(Pool, block, nTx)
      BY <2>1, <2>6 DEF HistoryInv
    <3> DEFINE r == AfterDisconnect(Pool, tx)
    <3>3. /\ ApartDisconnecting(r, block, nTx + 1)
          /\ emptied = {} => Restored(r, block, nTx + 1)
      BY <1>0, <2>2, <2>3, <2>4, <3>1, <3>2, ReturnStep
    <3>4. r = [txs |-> r.txs, next |-> r.next]
      <4>1. r = Pool \/ r = addUnchecked(Pool, tx) \/ r = RemoveRecursive(Pool, tx)
        BY DEF AfterDisconnect, AcceptsTo, RefusedOutright
      <4> QED
        BY <4>1, PoolShapes DEF Pool
    <3>5. SetPool(r)
      BY <1>4, <2>6 DEF UpdatePool, Connected
    <3> HIDE DEF r
    <3>6. Pool' = r
      BY <3>4, <3>5, SetPoolFacts
    <3> QED
      BY <1>0, <2>1, <2>2, <2>6, <3>3, <3>6 DEF HistoryInv
  <2> QED
    BY <2>5, <2>6
<1>5. CASE UpdateTip
  <2>1. /\ ~Settled /\ Settled' /\ best' = best /\ saved' = saved /\ Pool' = Pool
        /\ nTx > Len(vtx[block])
    BY <1>5 DEF UpdateTip, Settled, ledgerVars, Pool, poolVars
  <2>2. block \in Blocks \ {Genesis}
    BY <1>0, <2>1
  <2>3. Apart(Pool, best)
    BY <1>0, <2>1, <2>2, ApartExit DEF HistoryInv
  <2> QED
    BY <1>0, <2>1, <2>3 DEF HistoryInv, Settled
<1>6. ASSUME UNCHANGED ledgerVars, Settled, Settled', NEW t \in Txs,
             AcceptsTo(Pool, t), SetPool(addUnchecked(Pool, t))
      PROVE  HistoryInv'
  <2>1. Pool' = addUnchecked(Pool, t) /\ best' = best /\ saved' = saved
    BY <1>6, PoolShapes, SetPoolFacts DEF ledgerVars
  <2>2. Apart(Pool', best)
    BY <1>0, <1>6, <2>1, ApartAccept
  <2> QED
    BY <1>0, <1>6, <2>1, <2>2 DEF HistoryInv, Settled
<1>7. ASSUME UNCHANGED <<poolVars, best, saved>>, Settled, Settled' PROVE HistoryInv'
  <2>1. Pool' = Pool /\ best' = best /\ saved' = saved
    BY <1>7 DEF Pool, poolVars
  <2> QED
    BY <1>0, <1>7, <2>1 DEF HistoryInv, Settled
<1>8. ASSUME NEW t \in Txs, AcceptTx(t) \/ AcceptOwn(t) PROVE HistoryInv'
  <2>1. Settled /\ Settled' /\ AcceptsTo(Pool, t) /\ SetPool(addUnchecked(Pool, t))
        /\ UNCHANGED ledgerVars
    BY <1>8 DEF AcceptTx, AcceptOwn, Settled
  <2> QED
    BY <1>6, <2>1
<1>9. ASSUME NEW t \in Txs, StoreOrphan(t) PROVE HistoryInv'
  <2>1. UNCHANGED <<poolVars, best, saved>> /\ Settled /\ Settled'
    BY <1>9 DEF StoreOrphan, Settled, ledgerVars
  <2> QED
    BY <1>7, <2>1
<1>10. ASSUME NEW t \in Txs, TryOrphan(t) PROVE HistoryInv'
  <2>1. Settled /\ Settled' /\ UNCHANGED ledgerVars
    BY <1>10 DEF TryOrphan, Settled
  <2>2. CASE AcceptsTo(Pool, t) /\ SetPool(addUnchecked(Pool, t))
    BY <1>6, <2>1, <2>2
  <2>3. CASE UNCHANGED poolVars
    BY <1>7, <2>1, <2>3 DEF ledgerVars
  <2> QED
    BY <1>10, <2>2, <2>3 DEF TryOrphan
<1>11. ASSUME NextParent \/ EndTx PROVE HistoryInv'
  <2>1. UNCHANGED <<poolVars, best, saved>> /\ Settled /\ Settled'
    BY <1>11 DEF NextParent, EndTx, Settled, ledgerVars
  <2> QED
    BY <1>7, <2>1
<1>12. CASE Crash
  <2>1. Settled' /\ Pool' = EmptyPool /\ best' = saved /\ saved' = saved
    BY <1>12, EmptyPoolFacts, SetPoolFacts DEF Crash, Restart, Settled
  <2>2. EmptyPool.txs = {}
    BY DEF EmptyPool
  <2> QED
    BY <1>0, <2>1, <2>2 DEF HistoryInv, Settled, Apart
<1>13. CASE UNCHANGED vars
  <2>1. UNCHANGED <<poolVars, best, saved, emptied, block, nTx, pc>>
    BY <1>13 DEF vars, ledgerVars
  <2>2. Pool' = Pool /\ Settled' = Settled
    BY <2>1 DEF Pool, poolVars, Settled
  <2> QED
    BY <2>1, <2>2 DEF HistoryInv
<1> QED
  BY <1>1, <1>2, <1>3, <1>4, <1>5, <1>8, <1>9, <1>10, <1>11, <1>12, <1>13 DEF Next

(* If no two coinbases of a chain are the same, the history of the chain    *)
(* and the pool stay apart, and what the loop over a disconnected block has *)
(* been through is back in the pool or follows a transaction that is not.   *)
THEOREM HistoryInvariant ==
    ASSUME CoinbasesDiffer
    PROVE  Spec => [](IInv /\ HistoryInv)
<1>1. Init => HistoryInv
  <2>1. ASSUME Init PROVE HistoryInv
    <3>1. best = Genesis /\ saved = Genesis /\ Settled /\ Pool.txs = {}
      BY <2>1 DEF Init, LedgerInit, Settled, Pool
    <3> QED
      BY <3>1, TracedFacts DEF HistoryInv, Settled, Apart
  <2> QED
    BY <2>1
<1>2. IInv /\ HistoryInv /\ [Next]_vars => HistoryInv'
  BY HistoryStep
<1> QED
  BY <1>1, <1>2, MemPoolInvariant, PTL DEF Spec

(* A disconnected block, if the coins were saved meanwhile, leaves each of  *)
(* its transactions in the pool but for the non-standard ones, those that   *)
(* spend its coinbase, and the descendants of either in the block: as long  *)
(* as no two coinbases of a chain are the same.                             *)
THEOREM AlwaysResurrected ==
    ASSUME CoinbasesDiffer
    PROVE  Spec => Resurrected
<1>1. ASSUME IInv, HistoryInv, UpdateTip, ~Connected, emptied = {},
             NEW t \in TxsOf(block) \ (Coinbases \cup NonStandard)
      PROVE  t \in mapTx \/ Prevs(t) \cap (TxsOf(block) \ mapTx) # {}
  <2>1. pc = "updated" /\ ~Settled /\ nTx > Len(vtx[block]) /\ best # block
    BY <1>1 DEF UpdateTip, Settled, Connected
  <2>2. Restored(Pool, block, nTx)
    BY <1>1, <2>1 DEF HistoryInv
  <2>3. PICK i \in 1 .. Len(vtx[block]) : t = vtx[block][i]
    BY DEF TxsOf
  <2>4. block \in Blocks /\ nTx \in Nat
    BY <1>1 DEF IInv, TypeInv
  <2>5. i < nTx
    BY <2>1, <2>4, TxsOfIn
  <2>6. Pool.txs = mapTx
    BY DEF Pool
  <2> QED
    BY <2>2, <2>3, <2>5, <2>6 DEF Restored
<1>2. IInv /\ HistoryInv /\ [Next]_vars =>
        [UpdateTip /\ ~Connected /\ emptied = {} =>
           \A t \in TxsOf(block) \ (Coinbases \cup NonStandard) :
               t \in mapTx \/ Prevs(t) \cap (TxsOf(block) \ mapTx) # {}]_vars
  BY <1>1
<1> QED
  BY <1>2, HistoryInvariant, PTL DEF Spec, Resurrected

=============================================================================
