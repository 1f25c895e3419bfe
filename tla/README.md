# TLA+ models of the Offerings to Cthulhu node

The repository is a full node of the Bitcoin 0.9 family (`src/src/*.cpp`) with its own hash,
proof-of-work retargeting, subsidy schedule ("ritual" bonuses and tithes), synchronised and rolling
checkpoints, and a limit on the depth of reorganisations. This directory holds TLA+ models of the
parts whose correctness depends on the order of events, TLC configurations that check them on small
instances, and proofs, checked by TLAPS, of what holds for every instance.

1. [The system](#1-the-system): the inventory
2. [The modules](#2-the-modules): what each models and how it corresponds to the code
3. [The runs](#3-the-runs): what TLC checks, the bounds, the fairness, the disagreements found
4. [The proofs](#4-the-proofs): what is proved, from what, along which argument
5. [What is not modelled](#5-what-is-not-modelled)
6. [The plan](#6-the-plan)

To repeat the checks: `tlc -config chain_fork.cfg MCChainActivation.tla` (the run's `module` and `cfg`
are in `PROJECT.json`), `tlapm ChainActivationProofs.tla`.

## 1. The system

One process, `cthulhud` or the Qt wallet. Its threads (`init.cpp`, `net.cpp`): the message handler,
which goes round the peers, processes what each has sent and sends what each is due; the socket
thread; the threads that open connections; the script check workers; RPC threads; the miner; the
wallet flusher. Almost everything about blocks runs under one lock, `cs_main`, so most components
interact by calls within one critical section, and what makes them hard is the order of the critical
sections, and what has happened between two of them.

| component | state | operations | interacts with |
|---|---|---|---|
| Block index and chain activation, `main.cpp` | `mapBlockIndex`, `setBlockIndexValid`, `chainActive`, `chainMostWork`, the status flags of each block, `mapOrphanBlocks`, `pcoinsTip` | `ProcessBlock`, `AcceptBlock`, `AddToBlockIndex`, `ActivateBestChain`, `FindMostWorkChain`, `ConnectTip`, `DisconnectTip`, `InvalidBlockFound`, `LoadBlockIndexDB` | called by the message handler, the miner and start-up; calls validation, the databases, the memory pool, the checkpoints, the wallet |
| Script check queue, `checkqueue.h` | `queue`, `nIdle`, `nTotal`, `nTodo`, `fAllOk`, two condition variables | `CCheckQueueControl`, `Add`, `Wait`, `Loop` | `ConnectBlock` is the master, the pool's threads the workers |
| Block download, `main.cpp` | `mapBlocksToDownload`, `mapBlocksInFlight`, the lists and counters of each `CNodeState` | `AddBlockToQueue`, `MarkBlockAsInFlight`, `MarkBlockAsReceived`, `InitializeNode`, `FinalizeNode`, the stall detection of `SendMessages` | announcements and blocks of the peers, `ProcessBlock`, the disconnection in `net.cpp` |
| Coins views, `coins.cpp`, `txdb.cpp` | a stack of caches over a database, each with a best block | `GetCoins`, `SetCoins`, `HaveCoins`, `Flush`, `BatchWrite` | `ConnectBlock`, `DisconnectBlock`, the memory pool |
| Memory pool, `txmempool.cpp` | `mapTx`, `mapNextTx` | `AcceptToMemoryPool`, `addUnchecked`, `remove`, `removeConflicts`, `pruneSpent` | refilled by `DisconnectTip`, emptied by `ConnectTip` |
| Orphan transactions, `main.cpp` | `mapOrphanTransactions` and its index by input | `AddOrphanTx`, `EraseOrphanTx`, `LimitOrphanTxSize` | the `tx` message, the memory pool |
| Synchronised checkpoints, `checkpoints.cpp` | the accepted, the pending and the invalid checkpoint, and their database record | `ProcessSyncCheckpoint`, `AcceptPendingSyncCheckpoint`, `CheckSyncCheckpoint`, `ResetSyncCheckpoint` | messages, `AcceptBlock`, `ConnectTip` |
| Rolling checkpoints, `checkpoints.cpp` | `mapCheckpointsRolling` and an append-only file | `MaybeRollForward`, `LoadRollingCheckpoints`, `ClearRollingCheckpointsBelow` | `ConnectTip`, `AcceptBlock` |
| Subsidy, `main.cpp` | none | `GetBlockValue`, `RitualBonus`, `GetRitualStatus`, `GetTitheAmount`, `GetTreasurySubsidy` | `ConnectBlock`, the miner, the overview page |
| Proof of work, `pow.cpp`, `main.cpp` | none | `GetNextWorkRequired`, `EmergencyDifficultyEligible`, `ComputeMinWork`, `CheckProofOfWork` | `AcceptBlock`, the miner |
| Mining, `miner.cpp`, `rpcmining.cpp` | the templates of `getblocktemplate` and `getwork`, the block a thread hashes | `CreateNewBlock`, `SignBlockIfNeeded`, `BitcoinMiner`, `CheckWork`, `getblocktemplate`, `submitblock` | the tip, the memory pool, the subsidy, the wallet's Conclave key, `ProcessBlock` |
| Block and undo files, `main.cpp` | `infoLastBlockFile`, `nLastBlockFile` | `FindBlockPos`, `FindUndoPos`, `FlushBlockFile` | `AcceptBlock`, `ConnectBlock`, start-up |
| Message handling, `main.cpp` | `CNodeState`, `mapBlockSource`, `mapRelay` | `ProcessMessage`, `SendMessages`, `ProcessGetData` | all of the above |
| Connections, `net.cpp` | `vNodes`, reference counts, send and receive queues, bans | `ThreadSocketHandler`, `ThreadMessageHandler`, `StartSync` | message handling |
| Wallet, addresses, alerts, RPC, scripts, keys, encodings, user interface | | | see `PROJECT.json` "components" |

Which behaviours are hard, and what makes each component correct:

* **Chain activation.** Blocks arrive in any order; the best branch may turn out invalid half-way
  through a reorganisation, be refused by the depth gate, or be unreadable; the disk may be full; the
  process may die between any two writes. Correct means: the active chain is always valid and can be
  disconnected; the best usable chain wins, the first seen among equals; only what breaks a rule is
  condemned; and what is on disk can be loaded at any moment.
* **The check queue.** Threads that sleep, are woken late, spuriously or by an interruption. Correct
  means: the verdict on a block is the conjunction of its own checks, and the master gets it.
* **Block download.** Two maps of iterators into lists that belong to peers, changed by announcements,
  arrivals from anybody, time and disconnections. Correct means: no iterator dangles, nobody waits for
  what is there, and no peer that is silent, or that is heard, holds back a block from all others.
* **Coins views.** A view is a stack of caches that are saved at any time or not at all, and what a block
  spent is rebuilt from undo data that carries a height only sometimes. Correct means: whatever the caches
  hold, the view of a call answers with the coins of exactly one chain; a block can always be disconnected;
  a valid block is never refused for what a cache says; and a death loses whole blocks, never parts.
* **Memory pool and orphan transactions.** A reorganisation moves transactions between blocks and the pool
  while maturity and conflicts change. Correct means: what is in the pool could be mined, nothing is thrown
  out without need, what is disconnected comes back, and an orphan follows its parents.
* **Checkpoints.** The rolling ones are written once, when a block is connected, and consulted when another
  is accepted; nothing consults them when a chain is activated. The synchronised one is named by a message
  before or after the block it names has come, on either side of a fork. Correct means: what is locked in
  stays on the active chain, and the accepted checkpoint moves only up its own chain and fences the index.
* **Subsidy.** Boundary arithmetic that is written twice, once for consensus and once for display, and a
  payment that one function limits and three others split. Correct means: they agree at every height.
* **Mining.** A template is made at one time and used at another, while the tip, the clock, the wallet and
  the rules of the height change. Correct means: what the node serves or hashes is what it would accept.

The list of hazards, each at the line where it bites, is in `PROJECT.json`.

## 2. The modules

| module | what it is |
|---|---|
| `ChainActivation` | the block index and the active chain of one node |
| `MCChainActivation` | three block trees for it |
| `ChainActivationProofs` | its theorems |
| `CheckVerdict` | the abstract specification: what `ConnectBlock` relies on |
| `CheckQueue` | the pool of script check threads, which implements `CheckVerdict` |
| `MCCheckQueue` | its symmetry for TLC |
| `CheckQueueProofs` | its theorems, the refinement among them |
| `BlockDownload` | the download of blocks from several peers |
| `MCBlockDownload` | its symmetry for TLC |
| `PeerTraffic` | the reads and the inactivity check of the socket thread around every step of `BlockDownload`: its fairness and its liveness |
| `BlockDownloadProofs` | the theorems of `BlockDownload` |
| `BlockTxs` | blocks, transactions and the coins a chain leaves: the reference the next three are held against |
| `Ledger` | the abstract specification of the coins: whole blocks, and a saved state |
| `CoinsView` | the three layers of the coins under `ConnectBlock` and `DisconnectBlock`, which implement `Ledger` |
| `MCCoinsView`, `CoinsViewProofs` | its instance; its theorems, the refinement among them |
| `MemPool` | the memory pool and the orphan transactions, on the coins as `Ledger` promises them |
| `MCMemPool` | its instance |
| `MemPoolProofs` | the proofs about it |
| `Restoration` | the subsidy, the ritual and the Conclave's window as functions of the height |
| `RestorationProofs` | its theorems |
| `Mining` | templates, the miner thread and what the node accepts, on top of `Restoration` |
| `MCMining`, `MiningProofs` | its instance; its theorems |
| `Checkpoints` | rolling and synchronised checkpoints around every step of `ChainActivation` |
| `MCCheckpoints`, `CheckpointProofs` | its instance; its theorems, on top of those of `ChainActivation` |

Variables and actions have the names of the code where they can. An operator whose comment begins with
"Mutant" is no part of a specification: it is the form a definition would have with a plausible bug,
and shows that the property named in `PROJECT.json` would notice.

### ChainActivation

The block tree is a constant: `Parent`, `Height`, `Work` and `Chain` are what `AddToBlockIndex` computes
for every block the node can ever be handed. So are the verdicts on a block: `ContextBad` fails
`AcceptBlock`, `Bad` fails a consensus rule in `ConnectBlock`, `Corrupt` is damaged where it is stored
(`CorruptionPossible`, which must not condemn the block).

`pc` is the control point of the thread that holds `cs_main`: `"idle"` (nobody does), `"find"`
(`FindMostWorkChain`), `"gate"` (the measure of the reorganisation), `"step"` (the loops of
`DisconnectTip` and `ConnectTip`), `"return"`, `"orphans"` (the work queue of `ProcessBlock`), and the
ways to be gone: `"down"`, `"exited"` (start-up refused), `"aborted"` (an assertion failed). Every step
between two control points is a place where `Crash` may happen.

| action | code |
|---|---|
| `ReceiveBlock` | `ProcessBlock`, `AcceptBlock`, `AddToBlockIndex` for a block whose parent is known |
| `ReceiveOrphan` | the orphan branch of `ProcessBlock` with `PruneOrphanBlocks` |
| `AcceptOrphan`, `RefuseOrphan`, `NextInWorkQueue` | the work queue of `ProcessBlock` |
| `FindMostWorkChain` | the function, with both of its loops in one step |
| `ReorgGate` | the body of `ActivateBestChain` up to the first disconnection |
| `DisconnectTip`, `ConnectTip` | the functions, with `WriteChainState`, which may fail on a full disk |
| `InvalidBlockFound` | `ConnectTip`'s failure branch and the return to `FindMostWorkChain` |
| `ReadBlockFails`, `AssertFails` | a failed read, a failed assertion on the coins view |
| `ActivationComplete`, `Return` | the end of `ActivateBestChain`, and of `AcceptBlock` |
| `Shutdown`, `Crash`, `LoadBlockIndexDB` | the flush at shutdown, a death at any step, the reload with the activation start-up runs |

Two features of the code that a reader may not expect and the model keeps: the gate returns success
or failure from inside a loop that may already have moved the tip, and the candidate set is a set
ordered by work, arrival and, for blocks from disk, by the address of the `CBlockIndex`, which a
restart changes (`Addrs`).

Left out: the wallet and memory pool callbacks (the pool is in `MemPool`), the fork warnings and the
`getblocks` sent for an orphan. The checkpoint calls are in `Checkpoints`.

### CheckQueue and CheckVerdict

Each thread has a control point. A critical section of `Loop` is two steps, one that takes the mutex
(`Enter`, `Wake`) and one that leaves it (`Sleep`, `TakeBatch`, `Return`), because the constructor of
`CCheckQueueControl` reads the counters *without* the mutex and may do so between them (`Control`). `Add`
and `Wait` are the master's. The queue is a set and a batch any subset of the size the code computes: the
code says that the order does not matter, and the checks share nothing. `InterruptAll` is
`threadGroup.interrupt_all()` at shutdown: boost throws out of `cond.wait`, which leaves `nIdle`
incremented, ends a worker, and unwinds the master into the destructor of the control, which waits
again. The condition variable and the interruption are boost's and are modelled from their use.

`CheckVerdict` is what `ConnectBlock` needs: `Begin`, `Add`, `Decide`, with the verdict the conjunction of
the checks added in between. The mapping takes `open` to "the master is between a control's construction
and its return", and the history variable `added` to itself.

### BlockDownload

A peer is a `NodeId`, used once: `conn` goes from `"new"` to `"connected"`, `"disconnecting"` (`fDisconnect`
is set) and `"gone"` (`~CNode`). `dl` is one record with the two lists and two counters of each peer and
the two maps. An iterator is the position of the hash in the list its map entry names; that the position
exists whenever it is used is `ListsMatchMaps`.

| action | code |
|---|---|
| `Connect` | `InitializeNode` |
| `Inv` | one hash of an `inv` message: `AlreadyHave`, `AddBlockToQueue`, the penalty for a long queue |
| `Block` | a `block` message: `MarkBlockAsReceived`, then the outcomes of `ProcessBlock` (accepted with some orphans, kept as an orphan in the place of another, refused) |
| `Other` | any other message, which sets `nLastBlockProcess` all the same |
| `Submit` | a block of the miner or of `submitblock`: `ProcessBlock` without a peer, and without `MarkBlockAsReceived` |
| `SendMessages` | the ban and the detection of stalled peers |
| `Request` | one turn of the `getdata` loop, with `MarkBlockAsInFlight` |
| `Sent` | the end of that loop when the connection was lost in it |
| `SocketGone` | the socket thread sets `fDisconnect`, without `cs_main` |
| `FinalizeNode` | the function, from `~CNode` |
| `Tick` | time |

`SendMessages` holds `cs_main` until its loop has ended, which `sending` says; only the socket thread can
come between two turns. Times are ages in ticks. The code compares `nLastBlockReceive` and the `nTime` of
a request with `nLastBlockProcess`; both comparisons change only when a message of that peer moves
`nLastBlockProcess` (or a receipt or a first request moves `nLastBlockReceive`), so the model keeps the
ages and, from the last message, the two truth values `late` and `receiveLate`. An age saturates just
above the longest time it is compared with.

`PeerTraffic` adds `recvAge`, the time since `nLastRecv`, and puts a socket around the peers' actions.

| action | code |
|---|---|
| `Receive` | `ThreadSocketHandler` reads bytes of which nothing comes to `ProcessMessage`: part of a message, one that `ProcessMessages` drops for its header or checksum, or one left waiting while the peer does not read what it is sent |
| `Handle` | it reads bytes that complete a message, and `ProcessMessages` hands it on: `Inv`, `Block` or `Other` |
| `InactivityCheck` | "socket inactivity timeout" |
| `Lost` | any other end of the connection |
| `Deleted` | `ThreadSocketHandler` deletes the node: `FinalizeNode` |
| `TimePasses`, `Internal` | `Tick`; what is done without reading from a peer |

Every step of it is a step of `BlockDownload` or leaves its variables alone, so what is proved of the one
holds in the other. The 60 seconds in which a new peer must send something are not told apart from the 90
minutes, and the check that a peer takes what it is sent is one of the ways of `Lost`.

Left out: `pindexBestKnownBlock` and `hashLastUnknownBlock`, which the code says are for reporting only;
import and reindex, during which `inv` and `block` are ignored; and the `getblocks` messages, which change
nothing here, and on which it depends whether an announcement is repeated (planned as `BlockSync`).

### BlockTxs, Ledger and CoinsView

`BlockTxs` fixes a block tree and its transactions as constants, and `Utxo`, the coins the chain of each
block leaves, which `UtxoAssumption` ties to the blocks one at a time. `PartialUtxo(b, i, j)` is what has
to be found when the transactions of `b` before `i`, and `j` inputs of `i`, are applied. `Valid` is what
`CheckInputs` and BIP30 ask; rules that are not about the coins are the constant `BadBlocks`.

`Ledger` is what the rest of the node relies on: `Connect`, `Disconnect`, `Save`, `Restart`, each in one
step and with whole blocks. One detail of the cache shows through it, and the memory pool depends on it:
an entry whose last output was spent stays until the next save (`emptied`), and `HaveCoins` says yes.

`CoinsView` has the layers `view` (the `CCoinsViewCache` of one call), `cacheCoins` with `hashBlock`
(`pcoinsTip`) and `db` with `dbBest`. A read copies what it finds below into each layer it passes, as
`FetchCoins` does.

| action | code |
|---|---|
| `ConnectBlock`, `CheckInputs`, `SpendInput`, `AddOutputs`, `BlockConnected` | `ConnectBlock` with the BIP30 test, `HaveInputs` and `CheckInputs`, `UpdateCoins`, the undo data, and `ConnectTip` up to `WriteChainState` |
| `DisconnectBlock`, `RemoveOutputs`, `RestoreInput`, `BlockDisconnected` | `DisconnectBlock` and `DisconnectTip`, last transaction first |
| `WriteChainState`, `UpdateTip` | the save, or none, or a failed write |
| `Shutdown`, `Crash`, `Restart` | the flush at shutdown, a death between any two steps, the start from `dbBest` |

After a failed write only the shutdown (with its flush) or a death is modelled; the other thing that can
happen, an assertion, is in `ChainActivation`.

### MemPool

The actions of `Ledger` with the pool's part of `ConnectTip` and `DisconnectTip`: `ConnectBlock` or
`DisconnectBlock` moves the coins, `WriteChainState` saves them or does not, `UpdatePool` takes the block's
transactions one at a time, oldest first (`AfterConnect`, `AfterDisconnect`), and `UpdateTip` ends the call.
Beside them the `tx` message, one orphan at a time (`AcceptTx`, `StoreOrphan`, `TryOrphan`, `NextParent`,
`EndTx`), the node's own transactions (`AcceptOwn`), and a death (`Crash`). `mapTx` and `mapNextTx` are
changed by `addUnchecked`, `Erase`, `RemoveRecursive` and `RemoveConflicts`, functions of both; what the
code's `remove` reaches by calling itself along `mapNextTx` is `Descendants`, the least set with the
spenders of what it starts from and of itself. Policy is the constant `NonStandard`, fees and the
free-transaction limiter the constant `Free` (such a transaction may be refused or not). `DisconnectBlock` is
bounded by the depth gate, measured from the height the chain has reached (`peak`): the bound leaves out a
shorter branch of more work, and activations cut short by a death, whose depths add up. `DepthAssumption`,
that coinbases mature later than the gate's depth, is what the code's constants say from height 1,055,555 on.

Left out: lock times, banned scripts, priorities, `pruneSpent`, and the wallet's notifications.

### Restoration and Mining

`Restoration` translates the subsidy, bounty and window functions. The instance gives them the heights of
`chainparams.cpp`; only `COIN` is scaled down. `Mining` puts what makes blocks beside what judges them: `Acceptable` is `AcceptBlock` and
`ConnectBlock` as far as time, work, height, payments and signature go.

| action | code |
|---|---|
| `ReceiveBlock` | a block of the network on the tip, or in its place |
| `getblocktemplate`, `submitblock` | the RPC calls (with `-pooladdress`): `Rebuild` or the template kept, `UpdateTime`, the coinbase's height, `SignBlockIfNeeded` |
| `ReadTip`, `MinerCreate`, `MinerLook`, `MinerGiveUp`, `CheckWork` | `BitcoinMiner`: each section under `cs_main` |
| `Tick`, `SetBack`, `LockWallet` | the adjusted clock, forward and back, and the key |

The retarget's result is the value `"lwma"`, the emergency target `"limit"`; the hash search is a choice.
A transaction is represented by its fee, a signature by the message it signs. When `CreateNewBlock` throws,
`pc` becomes `"dead"`: nothing in the thread catches it for good. Left out: `getwork`, test networks,
`IsFinalTx`, banned scripts, the choice of transactions.

### Checkpoints

Every action of `ChainActivation`, with what the checkpoints add: the tests of `CheckBlock`,
`GetLastCheckpoint` and `CheckSyncCheckpoint` before a block enters the index (`PassesCheckpoints`),
`MaybeRollForward` after a block is connected, `AcceptPendingSyncCheckpoint` before `AcceptBlock` returns,
the `checkpoint` message (`ProcessSyncCheckpoint`), `clearrollingcheckpoints`, and the load of both. Both
ways of accepting a synchronised checkpoint hand its block to `ConnectTip` directly (`CheckpointConnected`,
`CheckpointNotConnected`, `AssertsExtension`), as the code does.

The message takes `cs_hashSyncCheckpoint` and not `cs_main`; the model lets it come when no block is being
processed, since a data race has no outcome the code defines. Left out: the built-in checkpoints and the
advisory mode, a failed append to the rolling file, the broadcaster and the relay.

## 3. The runs

| run | what it asks | distinct states |
|---|---|---|
| `chain_fork` | arrivals of nine blocks in every order, with orphans and their eviction, an invalid branch that has the most work, a damaged copy, equal-work siblings, one failed read or write, and one death or shutdown at any step with a reload | 989 thousand |
| `chain_live` | that activations end and that valid work is not forgotten, no stored copy being damaged | 19 thousand |
| `checkpoints` | the depth gate and both kinds of checkpoint over nine blocks: refusals, a damaged block, a failed read or write, a death and a reload | 466 thousand |
| `queue` | two workers and the master over two blocks of up to four checks, one of them bad, one spurious wake-up, the interruption at any step | 838 thousand |
| `download` | two peers and three blocks, two of them in flight at once, a queue over its limit, bans, stalls, losses, orphans, the miner | 722 thousand |
| `download_live` | that no peer that is silent or heard can hold a request or a queued block forever | 94 thousand |
| `coins` | five branches with transactions in common, connected, disconnected, saved, failing and dying in every order | 225 thousand |
| `mempool` | ten transactions and seven blocks: arrivals in every order through reorganisations and a death | 120 thousand |
| `mining` | templates and the miner thread across five boundaries of the schedule | 549 thousand |

### What is checked

*ChainActivation* (`chain_fork`, `chain_live`). `CandidatesExact`: the candidate set is exactly the indexed
blocks not known to fail; with fewer, a usable chain is lost, with more, `FindMostWorkChain` does not end.
`ActiveChainValid` and `FailedIsJustified`: every block of the active chain is validated, and every condemned
one deserves it. `BestWhenComplete` and `TipAbandonedForBetter`: the best chain wins and a tip is left only
for more work, or for equal work not received later. `OrphansWait`: no orphan is forgotten when its parent
arrives, checked where the gate refuses nothing and no disk operation has failed. `ActivationEnds`,
`ValidBlocksOutweighed`: liveness, with no damaged copy (`Corrupt = {}`), since the code tries one on the best
chain again without end.

*Checkpoints* (`checkpoints`). `RollingOnActive`: what is locked in stays on the active chain, in memory and in
the file, through reorganisations and restarts: the depth gate is what keeps it there. `SyncCheckpointFences`:
the accepted checkpoint moves only up its own chain and nothing enters the index beside it. And three
properties of `ChainActivation` where checkpoints also connect blocks: `ReorgBounded`, an activation unwinds
no more than the bound, no block being invalid; `SuccessMeansViewOnTip`, success is not reported over a coins
view that is off the tip; `Recoverable`, at every step the databases could be loaded.

*CheckQueue* (`queue`). `VerdictIsConjunction` is the refinement of `CheckVerdict`; `UnusedBetweenBlocks` is what
the next control finds; `WorkIsNoticed`: checks do not lie in the queue while all who could run them sleep;
`WaitReturns` and `WorkersEnd`: the master and the shutdown get on.

*BlockDownload* (`download`, `download_live`). `ListsMatchMaps`, `OnlyMissingWanted`, `FrontIsOldest`,
`RequestEnds` and `QueueMoves`; the bound on blocks in flight is part of `TypeOK`. `OnlyMissingWanted` has an
exception that the code makes: a block of the node's own miner may still be waited for from a peer. It then
arrives as a duplicate, or its peer is found to stall. `RequestEnds` has two. A peer that goes on
delivering other blocks it was asked for keeps `nLastBlockReceive` young and is never found to stall. And
both properties are of a peer that is silent, or of whose bytes something comes to `ProcessMessage` again and
again (`Heard`): the detection of stalls compares with `nLastBlockProcess`, which only a complete message
with a good header and checksum moves (main.cpp:4012, past the tests at 4755, 4770 and 4785), while any byte
read keeps off the inactivity check (net.cpp:962, 1017). A peer that keeps sending bytes of which nothing
comes to `ProcessMessage` is therefore neither found to stall nor inactive, and keeps its requests, and with
the limit in flight its queue, for as long as it likes: without `Heard =>` TLC finds that behaviour, in
which `TimePasses` and `Receive` alternate.

*CoinsView* (`coins`). `ViewExact`: at every step of a call its view holds the coins of the parent's chain with
just the applied part of the block. `CleanDisconnect`: what is removed and restored is as the block left it,
and the tip in memory and the saved one can be disconnected down to genesis. `ValidNeverRefused`: a block is
marked only for breaking a rule. `ImplementsLedger`: the refinement.

*MemPool* (`mempool`). `PoolInputsAvailable` and `IndexesExact`: what `CTxMemPool::check` asserts, and the index
of the orphans. `OnlyConflictsDropped`: a block takes out of the pool what it confirms, what conflicts, and
descendants of what conflicts. `Resurrected`: what is disconnected is back in the pool. `OrphansFollow`: no
child of an accepted transaction is left among the orphans with its inputs all there.

*Mining* (`mining`). `ServedAcceptable` and `SearchAcceptable`: what `getblocktemplate` served, and what the
thread hashes, is what the node accepts while the tip stays. `OwnBlockSound`: the self-test that throws does
not fail unless the clock is hours behind the chain. `RitualExact`: the page and the consensus rule agree, and
the payments add up. `StallEnds`: a stalled chain comes back by the thread alone, on a node that has a peer: on
the main network the thread waits while `vNodes` is empty (miner.cpp:829), and that wait is not in the model.

### Bounds

The trees of `MCChainActivation` are the smallest with what the properties tell apart. The fork tree has two
branches of equal work at three heights (ties, and a tie broken by arrival or address), a third branch of
most work that is invalid at its root and has a descendant (the walk that marks `BLOCK_FAILED_CHILD`, and
the fallback), and a damaged block. `MaxOrphanBlocks` is two; its limit is tested before the insertion, so that
three orphans may wait and a fourth evicts one. The small tree is its
core. The gate tree, with a bound of one, has a fork deeper than the bound, one within it, and one that is
either, depending on where the tip stands. One restart and one failed read or write are enough because
nothing in the code counts them: a second meets a state the first could have met. `MaxSpurious = 1` and
`MaxBlocks = 2` (of `CheckQueue`) likewise: what one block leaves behind is the next one's start. Four checks
are needed for `nNow` to take two at once. Three blocks and two in flight are needed for a queue that has to
wait; two peers for a block that arrives from the one that was not asked. `Timeout = 1` with saturating ages
makes every combination of "over one minute" and "over two minutes" occur. In `download_live` both blocks of
a peer may be in flight at once; the queue that waits for room was explored with one peer and three blocks, and
with two peers and one block in flight, where the properties hold as well. Its peers are alike, so that the
reads of one of them (`Watched`) are timed and the properties are stated of that one; of the other's socket
nothing is assumed. `Inactivity = 0` makes a peer inactive when nothing is read between two ticks; with one
peer, one and two ticks more were explored. `QueueLimit` and the ban count only in `download`.

*Checkpoints.* `MaxReorgDepth = 1`, so that no reorganisation shortens the chain, and `ROLLING_DEPTH = 3` (in the
code 100 and 1023). The gate bounds one activation and not their sum: an activation that is cut short by a
death starts its measure anew, so `RollingOnActive` needs `ROLLING_DEPTH` to be no less than `MaxReorgDepth`
for each of them, which one restart and one failure here are (`Roomy`, in section 4, is the general form). It is checked outside the initial download,
where the coins are saved with every tip; during it the file may be ahead of the coins a restart finds.

*CoinsView.* The tree has a transaction in two branches, an output made and spent in one block, a transaction
without spendable outputs, a coinbase repeated when it is spent and one repeated when it is not, a
double-spend, a spend at the height from which the longer maturity is asked that is old enough for the shorter
one only, and a block that breaks another rule.

*MemPool.* A chain of three transactions, two competitors, one transaction with two parents, a non-standard one
that is confirmed all the same, and four candidates for three places among the orphans. Coinbase maturity is
2 and `MaxReorgDepth` 1, as in the code 240 against 100: *below* height 1,055,555 the maturity in force
is 10, a reorganisation of more than ten blocks is within the gate, and `PoolInputsAvailable` does not hold:
the pool keeps transactions that spend a coinbase of the branch that was left.

*Mining.* `COIN = 16` makes the treasury's share a whole number; `GAP` and `DRIFT` are one tick. The starts are
two blocks before each place where the rules change: the emergency fork, the Conclave's window, the
restoration fork, the end of the window, the first finale; two new tips carry a behaviour across. A new tip's
median time is the old one or its own time, and new tips do not ask for the limit themselves; a behaviour has
a pool or a thread (they share nothing but the tip); the wallet is locked only where a signature is asked.
`MCMining` also checks by an `ASSUME` the figures of the comment at main.cpp:1267: the first cycle pays 15,777
over 27 blocks, the first of them 1,104,226.

Symmetry is used in `download` (blocks and peers are interchangeable, and only invariants are checked) and
in no run with a temporal property. The runs with `CHECK_DEADLOCK FALSE` are allowed to stop: their blocks,
restarts, threads or the clock come to an end.

### Fairness

`ChainActivation`: weak fairness of `Step`, the thread that holds `cs_main`, which waits for nobody.
Nothing is assumed of arrivals, deaths, or restarts. `CheckQueue`: weak fairness of every thread's own
steps, which is the operating system's scheduling; a thread that waits for the mutex gets it because
critical sections end. Spurious wake-ups and interruptions are not assumed. `PeerTraffic`: time
passes; `ThreadMessageHandler` goes round all peers and `ThreadSocketHandler` deletes the disconnected ones,
and each gets `cs_main` although others hold it in between (strong fairness for `SendMessages`, which tries
the lock once per round, and for `Deleted`); the loop of a `SendMessages` that has the lock ends; and the
socket thread comes to the inactivity check while it is due (weak fairness of `InactivityCheck`). Nothing is assumed about what a peer sends, or that it sends anything: that a peer which sends is
heard is no fairness of the code, and stands as the hypothesis `Heard` in the two properties. `Mining`: the clock goes on (weak fairness of `Tick`), the thread runs and finds `cs_main` free now
and then (`ReadTip`, `MinerCreate`, `MinerLook(TRUE)`), and a search at the lowest difficulty, if it is
begun again and again, succeeds (strong fairness of `CheckWork` at `"limit"`). Nothing is assumed of a search
at the retargeted difficulty, of the network, or of a pool; the thread's wait for a first peer is not modelled.

### Where the code and what is said of it disagree

| run | what the run shows |
|---|---|
| `gate_restart` | `research/max-reorg-depth-validation.md:52` says that a refusal shows as a wallet warning to the operators. A node that has refused a fork does not start again: start-up takes the refusal for a failure to connect the best block (init.cpp:1065). |
| `checkpoint_assert` | `ProcessSyncCheckpoint` and `AcceptPendingSyncCheckpoint` (checkpoints.cpp:886, 580) hand a block of a stored fork to `ConnectTip`, whose assertion that the block extends the tip (main.cpp:2523) ends the process. The comment at checkpoints.cpp:677 states that precondition, and only `ResetSyncCheckpoint` checks it. |
| `signed_window` | chainparams.h:84 says that the Conclave's window opens nine blocks before the restoration fork so that these are protected, chainparams.cpp:191 that each of them is only valid if signed. `ConnectBlock` (main.cpp:2354) asks for a signature from the fork on. |

Other statements are false of the code by its design or for reasons already in the table; the models behave
so, and no run of this directory repeats it:

* one activation can unwind more than `MAX_REORG_DEPTH` when a block turns out invalid on the way: the depth is
  measured at each turn of the loop, from wherever an earlier turn has left the tip (`ReorgBounded` with
  `Bad` not empty; pow.h:27);
* a refused fork stays the best candidate, and a block that extends the node's own tip meets the gate again
  and is indexed and not connected until its branch outweighs the fork (`ExtensionConnected`; the note on block
  production in the same research document);
* a refusal can come in the middle of an activation and leaves the node on less work than it had; the
  orphans of a block whose acceptance the gate refused, or a failed write interrupted, stay orphans;
* a full disk makes the next block abort the process: `ConnectTip` moves the coins view before
  `WriteChainState` fails, and `ConnectBlock` asserts that the view stands at the parent (main.cpp:2207);
* a damaged stored copy of a block on the best chain is tried again without end;
* `AssertionsHold` of `CheckQueue` (checkqueue.h:168): the queue *is* unused, but the constructor of the control
  reads the counters without the mutex, while a worker woken late may be between `nIdle--` and `nIdle++`;
* a peer is found to stall when its oldest request is over two minutes old, not all of them
  (`StalledMeansAllOld`; the comment at main.cpp:5003);
* a transaction whose block is disconnected before the coins were saved is not taken back into the pool
  (the entry it emptied still counts as known, main.cpp:933): `Resurrected` says `emptied = {}` for that;
* a sync checkpoint on a fork that was active once is accepted without a reorganisation, and from then on
  every block on the active tip is refused (`IsInMainChain` reads a flag, checkpoints.cpp:877).

## 4. The proofs

For any number of blocks, transactions, checks, threads and peers and any bounds, from the `ASSUME`s of the
modules. Five of the properties do not hold of every tree; their theorems state in an `ASSUME` what they need,
and each of these hypotheses is explained below: `Bad = {}`, `ShallowForks`, `Untangled`, `Roomy`,
`CoinbasesDiffer`. None of the properties is inductive alone; each proof has a strengthening that TLC checked
first.

**ChainActivationProofs.** `IInv` is `TypeOK` with `TipsValidated` (the tip, the coins view and the coins
database stand at validated blocks), `IndexRecorded` (every indexed block is in the block tree database, or
will be by the end of the step), `IndexClosed` (a block is indexed after its parent), `HandlesIndexed` and
`FailedIndexed` (what the call in progress and the flags name is indexed), `FailedIsJustified` and
`CandidatesExact`. That the active chain is valid across a reload depends on the coins database standing at a
block whose whole chain was recorded as validated, which depends on blocks being validated in the order of
the tree, which depends on the index being closed under parents. From it: `TypeCorrect`,
`CandidatesAlwaysExact`, `OnlyTheInvalidFail`, `ActiveChainAlwaysValid`, `AlwaysRecoverable`.

`BInv`, on top of it, is about the best chain. `BestSoFar`: while a branch is followed, no indexed block with a clean
chain is preferred to `chainMostWork`. `PathKept`: blocks are disconnected only for a clean branch, since a block
of it is found invalid with the tip right below that block, so that the search starts over with nothing left to
unwind. `OffTip`: when a failed write left the coins view away from the tip, no call succeeds any more, for there
is a better block than the tip and the attempt to reach it fails. Two lemmas carry it: `CleanViable`, that a
candidate with a clean chain is never passed over by the search, and `FindChooses`, what the search returns.
From it: `AlwaysBestWhenComplete`, `SuccessOnlyOnTip`, and the action property `TipAlwaysAbandonedForBetter`.

Two properties hold under a hypothesis. `AlwaysReorgBounded` assumes `Bad = {}`: a block found invalid in the
middle of an activation starts the count of `MAX_REORG_DEPTH` over. Its invariant, `Unwound`, follows a witness: a
block no more than `MAX_REORG_DEPTH` below the tip the activation began with that is an ancestor of that tip, of
the tip now, and of where the activation is going; without invalid blocks the search that follows a gate finds
the same branch again or one above the witness, because nothing clean is preferred to it. `OrphansAlwaysWait`
assumes `ShallowForks`, that no branch of the tree leaves another so far down that the gate would refuse to go
over: a refusal makes `AcceptBlock` fail, and the orphans of its block are then not tried. `Tracked` says that
each orphan whose parent is in the index is on a list that is still to be worked off; `OrphansTracked` that this
is so until a disk operation fails.

The heights and forks of the tree are used through `Ancestors` (two ancestors of a block at one height are the
same, and of two the lower is an ancestor of the higher), which follows from `TreeAssumption` by induction on the
height. The library's induction theorems take a predicate, but `WFMin` takes a set: `LeastNat` is the principle of
the least element made from it, and the induction is an argument about the least counterexample.

**CheckpointProofs.** `CInv` is that `IInv` with `SyncIndexed`: the accepted checkpoint is in the index, so that
the test against it is never skipped. The steps of `ChainActivation` keep it by `IInvStep`; what is new is the
block connected outside of an activation, of which nothing says that it is the best. From it:
`RecoverableWithCheckpoints`, and `AlwaysFenced`, the action property `SyncCheckpointFences`. `Unwound` survives
it too, and gives `ReorgBoundedWithCheckpoints`, under `Bad = {}` as above.

`BestInv` is `BInv` with `AtRest`, where `chainMostWork` can stand between activations. It holds under `Untangled`:
no block is invalid, or nobody signs checkpoints, or no disk operation fails. Only when all three come
together can a checkpoint connect a block to a tip that an activation has left half-way, beside a branch that an
invalid block has ended, and then `chainMostWork` says nothing any more. From it: `BestBesideCheckpoints`,
`SuccessOnTipWithCheckpoints`.

`AlwaysRollingOnActive` adds `Roomy`, that `ROLLING_DEPTH` has room for what interruptions can undo. One activation
unwinds at most `MaxReorgDepth` blocks, but one that is cut short, by a death, a failed read or write or an invalid
block, leaves a lower tip from which the next one measures anew. So a tip may be lower than the highest
block ever connected by `Budget(k) = Slack + MaxReorgDepth * k` after `k` interruptions, where `Slack` is how much
higher than another a chain of no more work can be; and what is locked in lies `ROLLING_DEPTH` below a block that
was connected. `RollInv` says this of every place a reload or an activation can leave the tip at: `Locks` (each
record is that far below a block once validated, and on the chain of the coins database's best block, and while
the process is up of the view's and of the tip), `Follows` (while it is up the coins database stands at the tip, as
it does outside of the initial download), `ScriptsValid` (a validated block has no invalid block in its chain), and
`Reach`, whose parts `RestNear`, `AbortedNear`, `EntryNear`, `LoopNear` and `ViewNear` give the distance at each
control point. `Enough(n)` asks for `n + MaxReorgDepth * (1 + Interruptions) <= ROLLING_DEPTH` with `n` the slack
and `Interruptions` all those of a behaviour together: 1023 against 100 leaves room for nine, and a slack of 23
blocks. The bound on their number is needed, as the code keeps no count of what has been unwound before an
interruption and nothing but the depth stands against their sum. `Enough` also asks that the gate be in force
where the checkpoints are, which is so on the main network (980,000 against 1,055,555) and on the test network
(100 and 100), and that the node be out of its initial download. The instance TLC checks lies one outside
`Roomy` and the property holds of it all the same: the hypothesis counts the worst case at every step.

**CheckQueueProofs.** The invariant accounts for the checks: those of the block are in the queue, in the
batch of one thread, or done, disjointly; `nTodo` counts the ones not done; `fAllOk`, with what the threads
have found and not yet merged, is false if a finished check is bad and only then; `nTotal` and `nIdle` count
threads by control point and by interruption taken. From it: `TypeCorrect` (the counters never go below
zero), `QueueUnusedBetweenBlocks`, and `VerdictCorrect`, that `CheckQueue` implements `CheckVerdict`. With
`Interrupted` (the threads are interrupted all at once, and a worker that has taken its interruption is at its
end) also `WorkAlwaysNoticed`: a step either leaves its thread at hand, or leaves the queue empty, or notifies.

**BlockDownloadProofs.** `IInv` is `TypeOK`, `ListsMatchMaps`, `OnlyMissingWanted` and `OldestFirst`: any two
requests of a peer lie in the order in which they were sent, where `FrontIsOldest` speaks of the first only
and is lost when the first is received. A lemma for each of `Unqueued`, `Landed`, `MarkBlockAsReceived`,
`AddBlockToQueue`, `MarkBlockAsInFlight`, `FinalizeNode`, `Processed` and `Tick` says what it does to lists,
counters and maps; then one step per action. From it: `TypeCorrect` (no peer is ever asked for more than
`MAX_BLOCKS_IN_TRANSIT_PER_PEER` blocks at once), `MapsMatchLists`, `OnlyMissingAreWanted`,
`FrontAlwaysOldest`.

**CoinsViewProofs.** `StoreRight` says of each layer below the call that it answers with the coins of the block it
stands at (`TipCoins` at `hashBlock`, `db` at `dbBest`, entry by entry, `Pruned` and absent being the same);
`UndoKept` that undo data, whenever it was written, is the one function of the block that `SpentHeight`
computes from the parent's coins (this is why an earlier connection's undo data serves a later one), and
that the tip, the saved tip and every ancestor of a block with undo data have theirs; and `Connecting` and
`Disconnecting` relate the view of the call to `PartialUtxo` at `<<nTx, nIn>>` and say that the part already
done was allowed. Lemmas about `Spent` and `PartialUtxo` give the effect of one input or one transaction on the
reference; lemmas about `Over`, `Fetched` and `BatchWrite` that copying a read and writing a batch leave the
answers alone. From it: `CoinsTypes`, `AlwaysViewExact`, `AlwaysCleanDisconnect`, `AlwaysValidNeverRefused`, and
`LedgerImplemented`: `Spec => ImplementsLedger`, each step of the layers being one of `Ledger` or none. So what
`MemPool` is checked against is what the code's caches do.

**MemPoolProofs.** Between blocks `PoolInv` is `PoolInputsAvailable`; in the middle of one it says where each input
comes from meanwhile. While block `b` connects (`FedConnecting`): from the pool, from the coins, or spent by
`b` itself, and of the last kind none conflicts with a transaction already done, so that none is left at the
end. While it disconnects (`FedDisconnecting`): from the pool, from the coins, or from a transaction of `b` that
is yet to be put back, which is why the oldest has to come first. `Matured` says that a coinbase the pool
spends lies as deep as `DepthAssumption` makes it, so that no disconnected block holds it. `BlockEffect`
says what a valid block does to the coins, `DescendantsFacts` that the least set is closed under spenders and
that each member has a parent in it or in what it started from. `QueueInv` follows the orphans: one that has a
parent among the accepted is still to be tried, is to be erased, or lacks an input. From it:
`AlwaysInputsAvailable`, `AlwaysIndexesExact`, `OnlyConflictsAlways`, `OrphansAlwaysFollow`.

`AlwaysResurrected` needs the past of a chain: a transaction that returns is accepted only if no pool transaction
spends what it spends, and descends from nothing that came after it. `Chain(b)` is the least set with `b`
and its ancestors and `ChainTxs(b)` their transactions; `History(b)` says that what these have spent is theirs and
stays spent, and that what is unspent is theirs; `Traced(b)`, that this is so of `b` and every block below, which a
reorganisation goes back to. `HistoryInv` follows from it that pool and chain have nothing in common (`Apart`),
also half-way through a block, and `Restored` is what the loop has done so far: a transaction of the block
before `nTx` is in the pool, or spends one of the block that is not. `ReturnedStay` is the part an order other
than oldest first would break: the removal of a transaction that was refused takes none of the returned ones
along. The hypothesis `CoinbasesDiffer`, that no chain has the same coinbase twice, is what the rule about the
height in the coinbase (main.cpp:2999) sees to; by `NoRepeats` no transaction then comes twice in a chain, since
the first of a block to be repeated would spend what is spent. Without it a transaction can be
confirmed again while the pool holds it, and the chain can spend twice.

**RestorationProofs.** `SplitExact` and `RitualInStep`, for every height and fee, by cases on the period of the
height; `RitualExact` of `Mining` is the pair of them at the tip.

**MiningProofs.** `IInv` says of the template, of what was served and of what the thread hashes that it is
`MadeFor` the tip while it builds on it: payments, signature output and height as the tip asks, a signature
of nothing else, a work that was right when the block was built, and a time past the median. `SearchOK` says
this of the thread's block only if the tip the thread read is the one the block builds on. From it:
`MiningTypes`, `AlwaysServedAcceptable`, `AlwaysSearchAcceptable`, `AlwaysOwnBlockSound`, `AlwaysRitualExact`.

Every invariant and action property of the passing runs is the subject of a theorem. Model-checked only is
liveness (`ActivationEnds`, `ValidBlocksOutweighed`, `WaitReturns`, `WorkersEnd`, `RequestEnds`, `QueueMoves`,
`StallEnds`), since `ENABLED` and fairness are out of the provers' reach.

## 5. What is not modelled

Every component is listed in `PROJECT.json` with its reason. In short: scripts, keys, hashes and encodings
are functions over byte strings, whose verdicts the models take as constants; the retarget (`LWMA3CalculateNextWorkRequired`
and the legacy one) is 256-bit arithmetic over a window of headers, whose result is one value; sockets, DNS,
Berkeley DB and Qt are I/O or other people's code; the wallet, alerts and addresses are on the later part of
the plan. The coins database and the block tree database appear as sets and functions, each batch atomic,
which is what LevelDB promises of a process that dies; the loss of power, which can also lose what was
written and not committed, is a hazard listed and not covered.

## 6. The plan

Done so far: chain activation, the check queue, the block download, the coins and their ledger, the memory
pool with the orphan transactions, the subsidy, mining, the checkpoints. What is left, in this order:

1. Proofs: the variants behind the liveness properties, as action properties (what each step of an activation,
   or of a worker, brings down), so that only the fairness argument is left to TLC.
2. `BlockSync`: the peer's side of the download (`PushInventory` with its known set, `getblocks`,
   `hashContinue`, `StartSync`, orphan roots), composed with `BlockDownload`; whether a refused
   announcement is ever heard again.
3. `BlockFiles`: block and undo files, their flush, and the loss of power, below `ChainActivation`.
4. `LWMA`: the retarget scaled down to small integers, against a reference over a window.
5. The wallet's view of confirmations, the address tables, alerts, and the bounded containers
   (`limitedmap`, `mruset`).
6. Banned scripts and lock times, in `MemPool` and in `Mining`.

Runs of one question each; where two small components can share an instance they will, to keep the set of
runs small enough to be repeated.
