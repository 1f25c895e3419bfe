------------------------------- MODULE Ledger -------------------------------
(* What the coins database and its cache promise (src/coins.h, src/txdb.h): *)
(* the coins of the chain that ends in the best block, changed by whole     *)
(* blocks, and a saved state of the same kind that a restart falls back to. *)
(* One detail of the cache shows through it: an entry whose last output was *)
(* spent stays until the next save, and HaveCoins answers yes for it.       *)
EXTENDS BlockTxs

VARIABLES
    best,       \* the best block
    coins,      \* the unspent outputs of the chain that ends in it
    saved,      \* the best block last saved
    savedCoins, \* and its coins
    emptied     \* the transactions with such an entry

ledgerVars == <<best, coins, saved, savedCoins, emptied>>

(* The entries that connecting or disconnecting b writes.                  *)
Touched(b) ==
    {vtx[b][i] : i \in 1 .. Len(vtx[b])}
    \cup UNION {{vin[vtx[b][i]][m][1] : m \in 1 .. Len(vin[vtx[b][i]])} : i \in 1 .. Len(vtx[b])}

MoveTo(b, touched) ==
    /\ best' = b /\ coins' = Utxo[b]
    /\ emptied' = (emptied \ touched) \cup {t \in touched : Utxo[b][t] = Pruned}
    /\ UNCHANGED <<saved, savedCoins>>

LedgerInit ==
    /\ best = Genesis /\ coins = Utxo[Genesis]
    /\ saved = Genesis /\ savedCoins = Utxo[Genesis]
    /\ emptied = {}

Connect(b) == Parent[b] = best /\ Valid(b) /\ MoveTo(b, Touched(b))

(* A transaction whose outputs can never be spent leaves no entry behind   *)
(* when it is disconnected from a saved state.                             *)
Disconnect ==
    /\ best # Genesis
    /\ MoveTo(Parent[best],
              Touched(best) \ {t \in Txs : vout[t] = {} /\ t \notin emptied})

Save ==
    /\ saved' = best /\ savedCoins' = coins
    /\ emptied' = {}
    /\ UNCHANGED <<best, coins>>

Restart ==
    /\ best' = saved /\ coins' = savedCoins
    /\ emptied' = {}
    /\ UNCHANGED <<saved, savedCoins>>

LedgerNext ==
    \/ \E b \in Blocks \ {Genesis} : Connect(b)
    \/ Disconnect
    \/ Save
    \/ Restart

LedgerSpec == LedgerInit /\ [][LedgerNext]_ledgerVars

=============================================================================
