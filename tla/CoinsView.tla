----------------------------- MODULE CoinsView -----------------------------
(***************************************************************************)
(* The set of unspent outputs and its three layers (src/coins.cpp,         *)
(* src/txdb.cpp, and ConnectBlock, DisconnectBlock, ConnectTip,            *)
(* DisconnectTip, WriteChainState of src/main.cpp): the view of one call   *)
(* on top of the cache pcoinsTip on top of the coins database, the undo    *)
(* data, and the death of the process at any step.                         *)
(*                                                                         *)
(* ConnectBlock and DisconnectBlock advance one input or one transaction   *)
(* at a time; <<nTx, nIn>> is how far the view is from the parent's state: *)
(* the transactions before nTx are applied, and nTx has nIn inputs spent.  *)
(***************************************************************************)
EXTENDS BlockTxs

CONSTANTS
    Absent,         \* no entry in a map
    NoUndo,         \* nUndoPos is null
    MaxRestarts,    \* bound: process deaths and shutdowns
    MaxDiskErrors   \* bound: failed writes

ASSUME ParameterAssumption ==
    /\ Absent \notin Coins
    /\ MaxRestarts \in Nat /\ MaxDiskErrors \in Nat

(* The entries of a block's undo data: one for each input. *)
UndoIndex(b) == UNION {{i} \X (1 .. Len(vin[vtx[b][i]])) : i \in 1 .. Len(vtx[b])}

ASSUME UndoAssumption == \A b \in Blocks : NoUndo \notin [UndoIndex(b) -> Nat]

VARIABLES
    view,       \* cacheCoins of the view of the running call
    cacheCoins, \* pcoinsTip's cacheCoins
    hashBlock,  \* pcoinsTip's best block
    db,         \* the coins database
    dbBest,     \* the best block recorded in it
    undo,       \* the undo data on disk: nHeight of each entry
    refused,    \* blocks InvalidBlockFound has marked
    block,      \* the block being connected or disconnected
    nTx,        \* the transaction the call is at
    nIn,        \* how many of its inputs are spent
    blockundo,  \* the undo data the call gathers
    fClean,     \* DisconnectBlock met what it expected
    pc,         \* the control point of the holder of cs_main
    restarts,   \* process deaths and shutdowns so far
    diskErrors  \* failed writes so far

storeVars == <<cacheCoins, hashBlock, db, dbBest>>
diskVars == <<undo, refused>>
callVars == <<block, nTx, nIn, blockundo, fClean>>
boundVars == <<restarts, diskErrors>>
vars == <<view, storeVars, diskVars, callVars, pc, boundVars>>

-----------------------------------------------------------------------------
(* The layers.                                                             *)

Empty == [t \in Txs |-> Absent]

(* What a layer answers on top of another. *)
Over(upper, lower) == [t \in Txs |-> IF upper[t] # Absent THEN upper[t] ELSE lower[t]]

(* FetchCoins and GetCoins: what is found below is copied into the map.    *)
Fetched(upper, lower, ts) ==
    [t \in Txs |-> IF t \in ts /\ upper[t] = Absent THEN lower[t] ELSE upper[t]]

Content(c) == IF c = Absent THEN Pruned ELSE c
Contents(f) == [t \in Txs |-> Content(f[t])]

(* What pcoinsTip and the view of the call answer. *)
TipCoins == Over(cacheCoins, db)
ViewCoins == Over(view, TipCoins)

(* The call looks ts up through its view, and changes the entry of t in it. *)
LookUp(ts) == cacheCoins' = Fetched(cacheCoins, db, {t \in ts : view[t] = Absent})
Change(ts, t, c) == view' = [Fetched(view, TipCoins, ts) EXCEPT ![t] = c]

(* Mutant: erasing a spent entry is left to the compaction of the database. *)
BatchWriteKeepsSpent(upper, lower) ==
    [t \in Txs |-> IF upper[t] \notin {Absent, Pruned} THEN upper[t] ELSE lower[t]]

(* BatchWrite of a cache to the database, which keeps no spent entries.    *)
BatchWrite(upper, lower) ==
    [t \in Txs |-> CASE upper[t] = Absent -> lower[t]
                     [] upper[t] = Pruned -> Absent
                     [] OTHER -> upper[t]]

Init ==
    /\ view = Empty /\ cacheCoins = Empty /\ hashBlock = Genesis
    /\ db = Empty /\ dbBest = Genesis
    /\ undo = [b \in Blocks |-> NoUndo] /\ refused = {}
    /\ block = Genesis /\ nTx = 1 /\ nIn = 0 /\ fClean = TRUE
    /\ blockundo = [ij \in UndoIndex(Genesis) |-> 0]
    /\ pc = "idle"
    /\ restarts = 0 /\ diskErrors = 0

-----------------------------------------------------------------------------
(* ConnectTip: ConnectBlock on a view, then the view on the cache.         *)

tx == vtx[block][nTx]

(* The call's view is gone.                                                *)
DropView ==
    /\ view' = Empty /\ nTx' = 1 /\ nIn' = 0
    /\ blockundo' = [ij \in UndoIndex(Genesis) |-> 0] /\ fClean' = TRUE

EndCall(next) ==
    /\ DropView
    /\ block' = Genesis
    /\ pc' = next

(* InvalidBlockFound. *)
Refuse(b) ==
    /\ refused' = refused \cup {b}
    /\ EndCall("idle")
    /\ UNCHANGED undo

(* Mutant: an entry is taken for unspent because it is in the map. *)
OverwritesIfPresent(b) == \E i \in 1 .. Len(vtx[b]) : TipCoins[vtx[b][i]] # Absent

(* BIP30: a transaction of the block would replace one with unspent outputs. *)
Overwrites(b) == \E i \in 1 .. Len(vtx[b]) : Content(TipCoins[vtx[b][i]]) # Pruned

(* ConnectBlock up to its loop.  Activation does not come back to a block  *)
(* it has marked.                                                          *)
ConnectBlock(b) ==
    /\ pc = "idle"
    /\ Parent[b] = hashBlock
    /\ b \notin refused
    /\ LookUp({vtx[b][i] : i \in 1 .. Len(vtx[b])})
    /\ IF Overwrites(b)
       THEN Refuse(b)
       ELSE /\ view' = Fetched(view, TipCoins, {vtx[b][i] : i \in 1 .. Len(vtx[b])})
            /\ block' = b /\ nTx' = 1 /\ nIn' = 0
            /\ blockundo' = [ij \in UndoIndex(b) |-> 0]
            /\ pc' = "inputs"
            /\ UNCHANGED <<fClean, diskVars>>
    /\ UNCHANGED <<hashBlock, db, dbBest, boundVars>>

(* HaveInputs and CheckInputs of the next transaction.                     *)
CheckInputs ==
    /\ pc = "inputs"
    /\ LET prev == {vin[tx][m][1] : m \in 1 .. Len(vin[tx])} IN
       /\ LookUp(prev)
       /\ IF InputsOK(tx, Contents(ViewCoins), Height[hashBlock] + 1)
          THEN /\ view' = Fetched(view, TipCoins, prev)
               /\ pc' = "spend"
               /\ UNCHANGED <<callVars, diskVars>>
          ELSE Refuse(block)
    /\ UNCHANGED <<hashBlock, db, dbBest, boundVars>>

(* Mutant: the undo entry never carries the height. *)
SpentHeightForgotten(c, n) == 0

(* CCoins::Spend: the undo entry carries the height of the transaction if  *)
(* this was its last unspent output.                                       *)
SpentHeight(c, n) == IF c.outs \ {n} = {} THEN c.nHeight ELSE 0

Spend(c, n) == Coin(c.outs \ {n}, c.nHeight)

(* UpdateCoins, one input.                                                 *)
SpendInput ==
    /\ pc = "spend" /\ nIn < Len(vin[tx])
    /\ LET p == vin[tx][nIn + 1][1]
           n == vin[tx][nIn + 1][2]
           c == Content(ViewCoins[p])
       IN  /\ LookUp({p})
           /\ Change({p}, p, Spend(c, n))
           /\ blockundo' = [blockundo EXCEPT ![<<nTx, nIn + 1>>] = SpentHeight(c, n)]
    /\ nIn' = nIn + 1
    /\ UNCHANGED <<hashBlock, db, dbBest, diskVars, block, nTx, fClean, pc, boundVars>>

(* UpdateCoins, the outputs.                                               *)
AddOutputs ==
    /\ pc = "spend" /\ nIn = Len(vin[tx])
    /\ Change({}, tx, Coin(vout[tx], Height[block]))
    /\ nTx' = nTx + 1 /\ nIn' = 0
    /\ pc' = IF nTx = Len(vtx[block]) THEN "connected" ELSE "inputs"
    /\ UNCHANGED <<storeVars, diskVars, block, blockundo, fClean, boundVars>>

(* The state of a finished call goes from its view to pcoinsTip.           *)
FlushView(best) ==
    /\ cacheCoins' = Over(view, cacheCoins)
    /\ hashBlock' = best
    /\ DropView
    /\ pc' = "write"
    /\ UNCHANGED block

(* Written once: a block connected again finds it in place.                *)
UndoWritten(b) ==
    IF undo[b] = NoUndo THEN [undo EXCEPT ![b] = blockundo] ELSE undo

(* The rest of ConnectBlock and ConnectTip up to WriteChainState.          *)
BlockConnected ==
    /\ pc = "connected"
    /\ \/ /\ block \in BadBlocks
          /\ Refuse(block)
          /\ UNCHANGED <<storeVars, diskErrors>>
       \/ /\ block \notin BadBlocks
          /\ undo' = UndoWritten(block)
          /\ FlushView(block)
          /\ UNCHANGED <<db, dbBest, refused, diskErrors>>
       \/ /\ block \notin BadBlocks /\ undo[block] = NoUndo
          /\ diskErrors < MaxDiskErrors
          /\ diskErrors' = diskErrors + 1
          /\ EndCall("dying")
          /\ UNCHANGED <<storeVars, diskVars>>
    /\ UNCHANGED restarts

-----------------------------------------------------------------------------
(* DisconnectTip: DisconnectBlock on a view, then the view on the cache.   *)

DisconnectBlock ==
    /\ pc = "idle"
    /\ hashBlock # Genesis
    /\ undo[hashBlock] # NoUndo
    /\ block' = hashBlock /\ nTx' = Len(vtx[hashBlock]) + 1 /\ nIn' = 0
    /\ fClean' = TRUE
    /\ pc' = "undo"
    /\ UNCHANGED <<view, storeVars, diskVars, blockundo, boundVars>>

(* The outputs of the last transaction still applied.                      *)
RemoveOutputs ==
    /\ pc = "undo" /\ nIn = 0 /\ nTx > 1
    /\ LET t == vtx[block][nTx - 1] IN
       /\ LookUp({t})
       /\ fClean' = (fClean /\ Content(ViewCoins[t]) = Coin(vout[t], Height[block]))
       /\ IF ViewCoins[t] = Absent THEN UNCHANGED view ELSE Change({t}, t, Pruned)
       /\ nIn' = Len(vin[t])
    /\ nTx' = nTx - 1
    /\ UNCHANGED <<hashBlock, db, dbBest, diskVars, block, blockundo, pc, boundVars>>

(* Mutant: the coins are rebuilt from the undo entry alone. *)
RestoredAlone(c, n, h) == Coin({n}, IF h # 0 THEN h ELSE c.nHeight)

(* An output put back by an undo entry with height h (0: others of its     *)
(* transaction are still unspent).                                         *)
Restored(c, n, h) ==
    Coin((IF h # 0 THEN {} ELSE c.outs) \cup {n}, IF h # 0 THEN h ELSE c.nHeight)

RestoreInput ==
    /\ pc = "undo" /\ nIn > 0
    /\ LET p == vin[tx][nIn][1]
           n == vin[tx][nIn][2]
           h == undo[block][<<nTx, nIn>>]
           c == Content(ViewCoins[p])
       IN  /\ LookUp({p})
           /\ fClean' = (/\ fClean
                         /\ h # 0 <=> c = Pruned
                         /\ h # 0 \/ n \notin c.outs)
           /\ Change({p}, p, Restored(c, n, h))
    /\ nIn' = nIn - 1
    /\ UNCHANGED <<hashBlock, db, dbBest, diskVars, block, nTx, blockundo, pc, boundVars>>

(* The end of DisconnectBlock; what is not clean fails DisconnectTip.      *)
BlockDisconnected ==
    /\ pc = "undo" /\ nTx = 1 /\ nIn = 0
    /\ IF fClean
       THEN FlushView(Parent[block])
       ELSE EndCall("idle") /\ UNCHANGED <<cacheCoins, hashBlock>>
    /\ UNCHANGED <<db, dbBest, diskVars, boundVars>>

-----------------------------------------------------------------------------
(* Mutant: the best block is written ahead of the coins. *)
FlushBestOnly ==
    /\ dbBest' = hashBlock
    /\ UNCHANGED <<db, cacheCoins>>

(* pcoinsTip->Flush(): one batch of the database. *)
Flush ==
    /\ db' = BatchWrite(cacheCoins, db)
    /\ dbBest' = hashBlock
    /\ cacheCoins' = Empty

(* WriteChainState flushes, or keeps the cache (initial download), or      *)
(* fails, and the node goes down.                                          *)
WriteChainState ==
    /\ pc = "write"
    /\ \/ /\ Flush
          /\ pc' = "updated"
          /\ UNCHANGED <<callVars, view, diskErrors>>
       \/ /\ pc' = "updated"
          /\ UNCHANGED <<cacheCoins, db, dbBest, callVars, view, diskErrors>>
       \/ /\ diskErrors < MaxDiskErrors
          /\ diskErrors' = diskErrors + 1
          /\ EndCall("dying")
          /\ UNCHANGED <<cacheCoins, db, dbBest>>
    /\ UNCHANGED <<hashBlock, diskVars, restarts>>

UpdateTip ==
    /\ pc = "updated"
    /\ EndCall("idle")
    /\ UNCHANGED <<storeVars, diskVars, boundVars>>

(* Shutdown() under cs_main flushes the cache. *)
Shutdown ==
    /\ pc \in {"idle", "dying"} /\ restarts < MaxRestarts
    /\ Flush
    /\ EndCall("down")
    /\ restarts' = restarts + 1
    /\ UNCHANGED <<hashBlock, diskVars, diskErrors>>

Crash ==
    /\ pc # "down" /\ restarts < MaxRestarts
    /\ EndCall("down")
    /\ restarts' = restarts + 1
    /\ UNCHANGED <<storeVars, diskVars, diskErrors>>

Restart ==
    /\ pc = "down"
    /\ cacheCoins' = Empty /\ hashBlock' = dbBest
    /\ pc' = "idle"
    /\ UNCHANGED <<view, db, dbBest, diskVars, callVars, boundVars>>

Next ==
    \/ \E b \in Blocks \ {Genesis} : ConnectBlock(b)
    \/ CheckInputs
    \/ SpendInput
    \/ AddOutputs
    \/ BlockConnected
    \/ DisconnectBlock
    \/ RemoveOutputs
    \/ RestoreInput
    \/ BlockDisconnected
    \/ WriteChainState
    \/ UpdateTip
    \/ Shutdown
    \/ Crash
    \/ Restart

Spec == Init /\ [][Next]_vars

-----------------------------------------------------------------------------
Layer == [Txs -> Coins \cup {Absent}]
Applying == pc \in {"inputs", "spend", "connected"}

TypeOK ==
    /\ view \in Layer /\ cacheCoins \in Layer /\ db \in Layer
    /\ hashBlock \in Blocks /\ dbBest \in Blocks /\ block \in Blocks
    /\ \A b \in Blocks : undo[b] \in [UndoIndex(b) -> Nat] \cup {NoUndo}
    /\ refused \subseteq Blocks
    /\ nTx \in Nat /\ nIn \in Nat /\ fClean \in BOOLEAN
    /\ blockundo \in [UndoIndex(IF Applying THEN block ELSE Genesis) -> Nat]
    /\ pc \in {"idle", "inputs", "spend", "connected", "undo", "write", "updated",
               "dying", "down"}
    /\ restarts \in 0 .. MaxRestarts /\ diskErrors \in 0 .. MaxDiskErrors

(* While a block is connected or disconnected, the view of the call holds   *)
(* the coins of the parent's chain with just the applied part of the block  *)
(* (UpdateCoins, DisconnectBlock): on top of a cache and a database of any  *)
(* age, for a transaction two branches have in common, for an output made   *)
(* and spent in the block, and for undo data of an earlier connection.      *)
ViewExact ==
    pc \in {"inputs", "spend", "connected", "undo"} =>
        Contents(ViewCoins) = PartialUtxo(block, nTx, nIn)

(* DisconnectBlock never meets what it logs as a corrupted database, nor a  *)
(* block without undo data: the outputs it removes and the inputs it        *)
(* restores are as the block left them, and both the tip in memory and the  *)
(* tip a restart would start from can be disconnected, down to genesis,     *)
(* since undo data is written before the coins that need it.                *)
CleanDisconnect ==
    /\ pc = "undo" => fClean
    /\ \A b \in {hashBlock, dbBest} : b # Genesis => undo[b] # NoUndo
    /\ \A b \in Blocks \ {Genesis} :
          undo[b] # NoUndo /\ Parent[b] # Genesis => undo[Parent[b]] # NoUndo

(* Only a block that breaks a rule is marked failed: what the view answers  *)
(* is never the reason (ConnectBlock, InvalidBlockFound).                   *)
ValidNeverRefused == \A b \in refused : ~Valid(b)

(* What the layers promise together: a ledger that moves from the coins of  *)
(* one chain to those of the next or the previous one in single steps, and  *)
(* falls back to the state last saved.                                      *)
L == INSTANCE Ledger WITH
        best <- hashBlock, coins <- Contents(TipCoins),
        saved <- dbBest, savedCoins <- Contents(db),
        emptied <- {t \in Txs : cacheCoins[t] = Pruned}

(* ConnectTip, DisconnectTip, WriteChainState and the deaths of the process *)
(* implement the ledger.                                                    *)
ImplementsLedger == L!LedgerSpec

=============================================================================
