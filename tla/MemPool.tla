------------------------------ MODULE MemPool ------------------------------
(* The memory pool of transactions and the orphan transactions             *)
(* (src/txmempool.cpp, and AcceptToMemoryPool, AddOrphanTx, EraseOrphanTx,  *)
(* LimitOrphanTxSize, ConnectTip, DisconnectTip and the "tx" message of     *)
(* src/main.cpp), on top of the coins as Ledger promises them.              *)
(*                                                                         *)
(* All of it runs under cs_main.  What calls AcceptToMemoryPool or remove   *)
(* again and again advances one transaction at a time: the "tx" message     *)
(* through the orphans, ConnectTip and DisconnectTip through the block.     *)
EXTENDS Ledger

CONSTANTS
    NonStandard,    \* transactions AcceptToMemoryPool refuses by policy
    Free,           \* those it may refuse a peer for their fee
    NoTx,           \* no transaction
    MaxOrphanTxs,   \* MAX_ORPHAN_TRANSACTIONS
    MaxReorgDepth,  \* MAX_REORG_DEPTH
    MaxRestarts     \* bound: process deaths

ASSUME MemPoolAssumption ==
    /\ NonStandard \subseteq Txs /\ Free \subseteq Txs
    /\ NoTx \notin Txs
    /\ MaxOrphanTxs \in Nat /\ MaxReorgDepth \in Nat /\ MaxRestarts \in Nat

(* Coinbases mature later than the deepest reorganisation: so it is from    *)
(* height 1,055,555 on (240 against 100), and not before (10).              *)
ASSUME DepthAssumption == \A b \in Blocks : MaxReorgDepth < GetCoinbaseMaturity(Height[b] + 1)

VARIABLES
    mapTx,          \* the memory pool
    mapNextTx,      \* the pool's spender of an output
    orphanTxs,      \* mapOrphanTransactions
    orphansByPrev,  \* mapOrphanTransactionsByPrev
    pc,             \* the control point of the holder of cs_main
    block,          \* the block being connected or disconnected
    nTx,            \* the transaction the loop over it is at
    vWorkQueue,     \* accepted transactions whose orphans are to be tried
    next,           \* where the loop over it is
    mi,             \* the orphans of that transaction still to be tried
    vEraseQueue,    \* orphans to erase when the message is done
    peak,           \* the height the active chain has reached
    restarts        \* process deaths so far

poolVars == <<mapTx, mapNextTx>>
orphanVars == <<orphanTxs, orphansByPrev>>
queueVars == <<vWorkQueue, next, mi, vEraseQueue>>
vars == <<ledgerVars, poolVars, orphanVars, pc, block, nTx, queueVars, peak, restarts>>

Ins(t) == {vin[t][m] : m \in 1 .. Len(vin[t])}
Prevs(t) == {o[1] : o \in Ins(t)}
Outpoints == UNION {Ins(t) : t \in Txs}

Init ==
    /\ LedgerInit
    /\ mapTx = {} /\ mapNextTx = [o \in Outpoints |-> NoTx]
    /\ orphanTxs = {} /\ orphansByPrev = [t \in Txs |-> {}]
    /\ pc = "idle" /\ block = Genesis /\ nTx = 1
    /\ vWorkQueue = <<>> /\ next = 0 /\ mi = {} /\ vEraseQueue = {}
    /\ peak = Height[Genesis]
    /\ restarts = 0

-----------------------------------------------------------------------------
(* CTxMemPool, as functions of its two maps.                               *)

EmptyPool == [txs |-> {}, next |-> [o \in Outpoints |-> NoTx]]
Pool == [txs |-> mapTx, next |-> mapNextTx]
SetPool(p) == mapTx' = p.txs /\ mapNextTx' = p.next

addUnchecked(p, t) ==
    [txs |-> p.txs \cup {t}, next |-> [o \in Outpoints |-> IF o \in Ins(t) THEN t ELSE p.next[o]]]

(* The pool after the transactions D have left it. *)
Without(p, D) ==
    [txs |-> p.txs \ D,
     next |-> [o \in Outpoints |-> IF \E t \in D \cap p.txs : o \in Ins(t) THEN NoTx ELSE p.next[o]]]

(* What mapNextTx says spends an output of a transaction in S.             *)
Spenders(p, S) == {p.next[o] : o \in {q \in Outpoints : q[1] \in S}} \ {NoTx}

(* The pool's transactions that mapNextTx leads to from S: the least set    *)
(* with the spenders of S and of itself.                                   *)
Descendants(p, S) ==
    {t \in p.txs : \A T \in SUBSET p.txs : Spenders(p, S \cup T) \subseteq T => t \in T}

(* remove, not recursive. *)
Erase(p, t) == Without(p, {t})

(* remove with fRecursive: the pool's descendants of t, and t.             *)
RemoveRecursive(p, t) == Without(p, {t} \cup Descendants(p, {t}))

(* Pool transactions other than t that spend what t spends.                *)
Conflicts(p, t) == {p.next[o] : o \in Ins(t)} \ {NoTx, t}

(* Mutant: the conflicting transaction goes and its descendants stay. *)
RemoveConflictsAlone(p, t) == Without(p, Conflicts(p, t))

RemoveConflicts(p, t) == Without(p, Conflicts(p, t) \cup Descendants(p, Conflicts(p, t)))

-----------------------------------------------------------------------------
(* AcceptToMemoryPool, on pool p.                                          *)

(* CCoinsViewMemPool: the cache first, even an entry with nothing left.    *)
HaveBelow(t) == coins[t] # Pruned \/ t \in emptied
HaveCoins(p, t) == HaveBelow(t) \/ t \in p.txs
Available(p, o) ==
    IF HaveBelow(o[1]) THEN o[2] \in coins[o[1]].outs
                       ELSE o[1] \in p.txs /\ o[2] \in vout[o[1]]

MissingInputs(p, t) == \E q \in Prevs(t) : ~HaveCoins(p, q)

(* Mutant: a spender of the same output in the pool is no obstacle. *)
RefusedIfKnown(p, t) == t \in Coinbases \cup NonStandard \/ t \in p.txs \/ HaveCoins(p, t)

(* The returns before the inputs are looked up.                            *)
RefusedOutright(p, t) ==
    \/ t \in Coinbases \cup NonStandard
    \/ t \in p.txs
    \/ \E o \in Ins(t) : p.next[o] # NoTx
    \/ HaveCoins(p, t)

(* A coinbase has to be old enough for the block after the tip.            *)
Mature(t) ==
    \A q \in Prevs(t) \cap Coinbases :
        Height[best] + 1 - coins[q].nHeight >= GetCoinbaseMaturity(Height[best] + 1)

AcceptsTo(p, t) ==
    /\ ~RefusedOutright(p, t)
    /\ ~MissingInputs(p, t)
    /\ \A o \in Ins(t) : Available(p, o)
    /\ Mature(t)

-----------------------------------------------------------------------------
(* ConnectTip and DisconnectTip: the coins move by Ledger's steps, and the  *)
(* pool follows once they are settled.                                     *)

ConnectBlock(b) ==
    /\ pc = "idle"
    /\ Connect(b)
    /\ block' = b /\ nTx' = 1
    /\ pc' = "write"
    /\ peak' = IF Height[b] > peak THEN Height[b] ELSE peak
    /\ UNCHANGED <<poolVars, orphanVars, queueVars, restarts>>

(* Bound: the chain is never more than MaxReorgDepth below where it was.   *)
DisconnectBlock ==
    /\ pc = "idle"
    /\ peak - Height[best] < MaxReorgDepth
    /\ Disconnect
    /\ block' = best /\ nTx' = 1
    /\ pc' = "write"
    /\ UNCHANGED <<poolVars, orphanVars, queueVars, peak, restarts>>

(* WriteChainState saves the coins or, in the initial download, keeps them *)
(* in the cache.  When it fails the node goes down with its pool: Crash.   *)
WriteChainState ==
    /\ pc = "write"
    /\ Save \/ UNCHANGED ledgerVars
    /\ pc' = "updated"
    /\ UNCHANGED <<block, nTx, poolVars, orphanVars, queueVars, peak, restarts>>

(* Mutant: a confirmed transaction takes its descendants along. *)
AfterConnectRecursive(p, t) == RemoveConflicts(RemoveRecursive(p, t), t)

(* What a connected transaction does to the pool. *)
AfterConnect(p, t) == RemoveConflicts(Erase(p, t), t)

(* What a disconnected one does: back into the pool, or out of it with all  *)
(* descendants.                                                            *)
AfterDisconnect(p, t) ==
    CASE t \in Coinbases -> p
      [] AcceptsTo(p, t) -> addUnchecked(p, t)
      [] OTHER -> RemoveRecursive(p, t)

(* Mutant: the block is walked newest first. *)
NewestFirst == vtx[block][Len(vtx[block]) + 1 - nTx]

(* The loops go through the block oldest first. *)
tx == vtx[block][nTx]

Connected == block = best

UpdatePool ==
    /\ pc = "updated" /\ nTx <= Len(vtx[block])
    /\ SetPool(IF Connected THEN AfterConnect(Pool, tx) ELSE AfterDisconnect(Pool, tx))
    /\ nTx' = nTx + 1
    /\ UNCHANGED <<ledgerVars, orphanVars, pc, block, queueVars, peak, restarts>>

UpdateTip ==
    /\ pc = "updated" /\ nTx > Len(vtx[block])
    /\ block' = Genesis /\ nTx' = 1
    /\ pc' = "idle"
    /\ UNCHANGED <<ledgerVars, poolVars, orphanVars, queueVars, peak, restarts>>

-----------------------------------------------------------------------------
(* The "tx" message, and a transaction of the node's own.                  *)

AddOrphan(t) ==
    [txs |-> orphanTxs \cup {t},
     byPrev |-> [q \in Txs |-> IF q \in Prevs(t) THEN orphansByPrev[q] \cup {t}
                                                 ELSE orphansByPrev[q]]]

(* EraseOrphanTx, for each transaction of D. *)
WithoutOrphans(o, D) ==
    [txs |-> o.txs \ D, byPrev |-> [q \in Txs |-> o.byPrev[q] \ D]]

SetOrphans(o) == orphanTxs' = o.txs /\ orphansByPrev' = o.byPrev

(* LimitOrphanTxSize evicts, and one too many at the most is there. *)
OverLimit(txs) == Cardinality(txs) > MaxOrphanTxs

AcceptTx(t) ==
    /\ pc = "idle"
    /\ AcceptsTo(Pool, t)
    /\ SetPool(addUnchecked(Pool, t))
    /\ vWorkQueue' = <<t>> /\ next' = 1 /\ mi' = orphansByPrev[t]
    /\ vEraseQueue' = {t}
    /\ pc' = "tx"
    /\ UNCHANGED <<ledgerVars, orphanVars, block, nTx, peak, restarts>>

StoreOrphan(t) ==
    /\ pc = "idle"
    /\ ~RefusedOutright(Pool, t) /\ MissingInputs(Pool, t)
    /\ LET o == AddOrphan(t) IN
       IF OverLimit(o.txs) THEN \E e \in o.txs : SetOrphans(WithoutOrphans(o, {e}))
                           ELSE SetOrphans(o)
    /\ UNCHANGED <<ledgerVars, poolVars, pc, block, nTx, queueVars, peak, restarts>>

(* Mutant: the children of an accepted orphan are not tried. *)
QueuedNever(t) == vWorkQueue

Queued(t) == Append(vWorkQueue, t)

(* An orphan of vWorkQueue[next]: accepted, given up, or still waiting.    *)
TryOrphan(t) ==
    /\ pc = "tx" /\ t \in mi
    /\ mi' = mi \ {t}
    /\ \/ /\ AcceptsTo(Pool, t)
          /\ SetPool(addUnchecked(Pool, t))
          /\ vWorkQueue' = Queued(t)
          /\ vEraseQueue' = vEraseQueue \cup {t}
       \/ /\ ~AcceptsTo(Pool, t) \/ t \in Free
          /\ vEraseQueue' = IF RefusedOutright(Pool, t) \/ ~MissingInputs(Pool, t)
                            THEN vEraseQueue \cup {t} ELSE vEraseQueue
          /\ UNCHANGED <<poolVars, vWorkQueue>>
    /\ UNCHANGED <<ledgerVars, orphanVars, pc, block, nTx, next, peak, restarts>>

NextParent ==
    /\ pc = "tx" /\ mi = {} /\ next < Len(vWorkQueue)
    /\ next' = next + 1
    /\ mi' = orphansByPrev[vWorkQueue[next + 1]]
    /\ UNCHANGED <<ledgerVars, poolVars, orphanVars, pc, block, nTx, vWorkQueue, vEraseQueue,
                   peak, restarts>>

EndTx ==
    /\ pc = "tx" /\ mi = {} /\ next = Len(vWorkQueue)
    /\ SetOrphans(WithoutOrphans([txs |-> orphanTxs, byPrev |-> orphansByPrev], vEraseQueue))
    /\ vWorkQueue' = <<>> /\ next' = 0 /\ vEraseQueue' = {}
    /\ pc' = "idle"
    /\ UNCHANGED <<ledgerVars, poolVars, block, nTx, mi, peak, restarts>>

(* sendrawtransaction and the wallet: the orphans are left alone.          *)
AcceptOwn(t) ==
    /\ pc = "idle"
    /\ AcceptsTo(Pool, t)
    /\ SetPool(addUnchecked(Pool, t))
    /\ UNCHANGED <<ledgerVars, orphanVars, pc, block, nTx, queueVars, peak, restarts>>

(* The process dies; the pool and the orphans are not kept.                *)
Crash ==
    /\ restarts < MaxRestarts
    /\ Restart
    /\ SetPool(EmptyPool)
    /\ orphanTxs' = {} /\ orphansByPrev' = [t \in Txs |-> {}]
    /\ pc' = "idle" /\ block' = Genesis /\ nTx' = 1
    /\ vWorkQueue' = <<>> /\ next' = 0 /\ mi' = {} /\ vEraseQueue' = {}
    /\ peak' = Height[saved]
    /\ restarts' = restarts + 1

Next ==
    \/ \E b \in Blocks \ {Genesis} : ConnectBlock(b)
    \/ DisconnectBlock
    \/ WriteChainState
    \/ UpdatePool
    \/ UpdateTip
    \/ \E t \in Txs : AcceptTx(t)
    \/ \E t \in Txs : StoreOrphan(t)
    \/ \E t \in Txs : TryOrphan(t)
    \/ NextParent
    \/ EndTx
    \/ \E t \in Txs : AcceptOwn(t)
    \/ Crash

Spec == Init /\ [][Next]_vars

-----------------------------------------------------------------------------
Settled == pc \in {"idle", "tx"}

(* What CTxMemPool::check asserts of the inputs: each is an output of the   *)
(* pool or unspent at the tip, through every reorganisation the depth gate  *)
(* lets by, provided coinbases mature later than that.                      *)
PoolInputsAvailable ==
    Settled => \A t \in mapTx : \A o \in Ins(t) :
        IF o[1] \in mapTx THEN o[2] \in vout[o[1]] ELSE o[2] \in coins[o[1]].outs

(* Both indexes agree with what they index, through every removal: as       *)
(* CTxMemPool::check asserts, mapNextTx lists the inputs of the pool, each   *)
(* with the one transaction that spends it; and                              *)
(* mapOrphanTransactionsByPrev lists each orphan under each of its parents,  *)
(* also for the loop that walks it while it changes.                        *)
IndexesExact ==
    /\ \A o \in Outpoints, t \in Txs : mapNextTx[o] = t <=> t \in mapTx /\ o \in Ins(t)
    /\ \A q, t \in Txs : t \in orphansByPrev[q] <=> t \in orphanTxs /\ q \in Prevs(t)
    /\ mi \subseteq orphanTxs

TxsOf(b) == {vtx[b][i] : i \in 1 .. Len(vtx[b])}

(* Connecting a transaction takes from the pool the transaction itself,     *)
(* what conflicts with it, and the descendants of what conflicts: nothing   *)
(* else, its own descendants least of all.                                  *)
OnlyConflictsDropped ==
    [][UpdatePool /\ Connected =>
       \A t \in mapTx \ (mapTx' \cup {tx}) :
           \/ Ins(t) \cap Ins(tx) # {}
           \/ Prevs(t) \cap (mapTx \ (mapTx' \cup {tx})) # {}]_vars

(* When a block is disconnected its transactions are back in the pool, if   *)
(* the coins have been saved meanwhile, unless policy refuses one or a      *)
(* parent in its block.                                                     *)
(* (With unsaved coins the emptied entries make every one a known one.)     *)
Resurrected ==
    [][UpdateTip /\ ~Connected /\ emptied = {} =>
       \A t \in TxsOf(block) \ (Coinbases \cup NonStandard) :
           t \in mapTx \/ Prevs(t) \cap (TxsOf(block) \ mapTx) # {}]_vars

(* When a "tx" message is done, no child of a transaction it brought into   *)
(* the pool is left among the orphans with its inputs all there: not one    *)
(* with several parents, nor one further down a chain of orphans.           *)
OrphansFollow ==
    [][EndTx =>
       \A t \in orphanTxs' : Prevs(t) \cap vEraseQueue \cap mapTx # {} =>
           MissingInputs(Pool, t)]_vars

=============================================================================
