-------------------------- MODULE ChainActivation --------------------------
(***************************************************************************)
(* The block index and the active chain of one node: what happens to a     *)
(* block from ProcessBlock until it is the tip, is set aside, or is        *)
(* rejected (src/main.cpp, ProcessBlock .. ActivateBestChain), including   *)
(* reorganisations, the MAX_REORG_DEPTH gate, orphan blocks, the death of  *)
(* the process at any step and the reload of the databases.                *)
(*                                                                         *)
(* Everything here runs under cs_main.  pc is the control point of the     *)
(* thread that holds it; the steps between two "idle" states are those at  *)
(* which the process may die.                                              *)
(***************************************************************************)
EXTENDS Integers, FiniteSets, Sequences

CONSTANTS
    Blocks,          \* every block the node can ever be handed
    Genesis,         \* the genesis block
    NoBlock,         \* the NULL block index pointer
    Parent,          \* hashPrevBlock, for every block but Genesis
    Height,          \* nHeight
    Work,            \* nChainWork: the accumulated work of the chain to a block
    Chain,           \* the blocks from Genesis to a block, both included
    Bad,             \* blocks whose ConnectBlock fails a consensus rule
    ContextBad,      \* blocks AcceptBlock refuses in the context of their parent
    Corrupt,         \* blocks whose stored copy ConnectBlock finds damaged
    MaxReorgDepth,   \* MAX_REORG_DEPTH
    LWMA3ForkHeight, \* the height from which MAX_REORG_DEPTH applies
    MaxOrphanBlocks, \* MAX_ORPHAN_BLOCKS
    Addrs,           \* the orders in which a restart may allocate the block index
    MaxRestarts,     \* bound: process deaths and shutdowns
    MaxDiskErrors    \* bound: failed reads and writes

(* pprev, nHeight and nChainWork as AddToBlockIndex computes them, and what *)
(* a CChain holds for a given tip.                                          *)
ASSUME TreeAssumption ==
    /\ Genesis \in Blocks /\ NoBlock \notin Blocks
    /\ Parent \in [Blocks \ {Genesis} -> Blocks]
    /\ Height \in [Blocks -> Nat] /\ Height[Genesis] = 0
    /\ Work \in [Blocks -> Nat]
    /\ Chain \in [Blocks -> SUBSET Blocks] /\ Chain[Genesis] = {Genesis}
    /\ \A b \in Blocks \ {Genesis} :
          /\ Height[b] = Height[Parent[b]] + 1
          /\ Work[b] > Work[Parent[b]]
          /\ Chain[b] = Chain[Parent[b]] \cup {b}

ASSUME ParameterAssumption ==
    /\ Bad \subseteq Blocks \ {Genesis}
    /\ ContextBad \subseteq Blocks \ {Genesis}
    /\ Corrupt \subseteq Blocks \ {Genesis}
    /\ MaxReorgDepth \in Nat /\ LWMA3ForkHeight \in Nat
    /\ MaxOrphanBlocks \in Nat
    /\ Addrs # {} /\ Addrs \subseteq [Blocks -> Nat]
    /\ \A f \in Addrs : \A x, y \in Blocks : f[x] = f[y] => x = y
    /\ MaxRestarts \in Nat /\ MaxDiskErrors \in Nat

VARIABLES
    mapBlockIndex,     \* the blocks in the index
    nSequenceId,       \* order of arrival, 0 for a block loaded from disk
    nBlockSequenceId,  \* the next sequence id
    addr,              \* the address of each CBlockIndex, the last tie-break
    failed,            \* blocks with BLOCK_FAILED_VALID or BLOCK_FAILED_CHILD
    scripts,           \* blocks with BLOCK_VALID_SCRIPTS and BLOCK_HAVE_UNDO
    setBlockIndexValid,\* the candidates for the tip
    chainActive,       \* the tip of chainActive
    chainMostWork,     \* the tip of chainMostWork, or NoBlock
    coinsBest,         \* pcoinsTip->GetBestBlock()
    mapOrphanBlocks,   \* blocks waiting for their parent
    vWorkQueue,        \* ProcessBlock's queue of accepted hashes
    cur,               \* the block being accepted; NoBlock at start-up
    pindexOldTip,      \* the tip when ActivateBestChain was entered
    ret,               \* ActivateBestChain's return value
    pc,                \* the control point of the holder of cs_main
    dbIndex,           \* the blocks recorded in the block tree database
    dbFailed,          \* those recorded with a BLOCK_FAILED flag
    dbScripts,         \* those recorded with BLOCK_VALID_SCRIPTS
    dbCoins,           \* the best block recorded in the coins database
    restarts,          \* process deaths and shutdowns so far
    diskErrors         \* failed reads and writes so far

indexVars == <<mapBlockIndex, nSequenceId, nBlockSequenceId, addr>>
statusVars == <<failed, scripts, setBlockIndexValid>>
chainVars == <<chainActive, chainMostWork, coinsBest>>
callVars == <<mapOrphanBlocks, vWorkQueue, cur, pindexOldTip, ret>>
dbVars == <<dbIndex, dbFailed, dbScripts, dbCoins>>
boundVars == <<restarts, diskErrors>>
vars == <<indexVars, statusVars, chainVars, callVars, pc, dbVars, boundVars>>

-----------------------------------------------------------------------------
(* Mutant: the block seen last wins a tie. *)
WorseLastSeenWins(a, b) ==
    \/ Work[a] < Work[b]
    \/ Work[a] = Work[b] /\ nSequenceId[a] < nSequenceId[b]
    \/ /\ Work[a] = Work[b] /\ nSequenceId[a] = nSequenceId[b]
       /\ addr[a] > addr[b]

(* CBlockIndexWorkComparator: a sorts before b in setBlockIndexValid.      *)
Worse(a, b) ==
    \/ Work[a] < Work[b]
    \/ Work[a] = Work[b] /\ nSequenceId[a] > nSequenceId[b]
    \/ /\ Work[a] = Work[b] /\ nSequenceId[a] = nSequenceId[b]
       /\ addr[a] > addr[b]

(* The last common block of two chains. *)
Fork(a, b) == CHOOSE c \in Chain[a] \cap Chain[b] :
                 \A d \in Chain[a] \cap Chain[b] : Height[d] <= Height[c]

Init ==
    /\ mapBlockIndex = {Genesis}
    /\ nSequenceId = [b \in Blocks |-> IF b = Genesis THEN 1 ELSE 0]
    /\ nBlockSequenceId = 2
    /\ addr \in Addrs
    /\ failed = {} /\ scripts = {Genesis} /\ setBlockIndexValid = {Genesis}
    /\ chainActive = Genesis /\ chainMostWork = Genesis /\ coinsBest = Genesis
    /\ mapOrphanBlocks = {} /\ vWorkQueue = <<>>
    /\ cur = NoBlock /\ pindexOldTip = Genesis /\ ret = TRUE
    /\ pc = "idle"
    /\ dbIndex = {Genesis} /\ dbFailed = {} /\ dbScripts = {Genesis}
    /\ dbCoins = Genesis
    /\ restarts = 0 /\ diskErrors = 0

-----------------------------------------------------------------------------
(* Receiving a block.                                                      *)

(* AddToBlockIndex up to its call of ActivateBestChain, with the entry of  *)
(* ActivateBestChain.                                                      *)
AddToBlockIndex(b) ==
    /\ mapBlockIndex' = mapBlockIndex \cup {b}
    /\ nSequenceId' = [nSequenceId EXCEPT ![b] = nBlockSequenceId]
    /\ nBlockSequenceId' = nBlockSequenceId + 1
    /\ setBlockIndexValid' = setBlockIndexValid \cup {b}
    /\ dbIndex' = dbIndex \cup {b}
    /\ cur' = b
    /\ pindexOldTip' = chainActive
    /\ pc' = "find"
    /\ UNCHANGED <<addr, failed, scripts, chainVars, dbFailed, dbScripts, dbCoins>>

(* ProcessBlock of a block whose parent is known: AcceptBlock.             *)
ReceiveBlock(b) ==
    /\ pc = "idle"
    /\ b \notin mapBlockIndex \cup mapOrphanBlocks
    /\ Parent[b] \in mapBlockIndex
    /\ b \notin ContextBad
    /\ AddToBlockIndex(b)
    /\ UNCHANGED <<mapOrphanBlocks, vWorkQueue, ret, boundVars>>

(* PruneOrphanBlocks: from a random orphan down to one nothing waits on.   *)
PruneOrphanBlocks ==
    IF Cardinality(mapOrphanBlocks) <= MaxOrphanBlocks
    THEN {mapOrphanBlocks}
    ELSE {mapOrphanBlocks \ {o} : o \in
             {x \in mapOrphanBlocks : \A y \in mapOrphanBlocks : Parent[y] # x}}

(* ProcessBlock of a block from a peer whose parent is not known.          *)
ReceiveOrphan(b) ==
    /\ pc = "idle"
    /\ b \notin mapBlockIndex \cup mapOrphanBlocks
    /\ Parent[b] \notin mapBlockIndex
    /\ \E kept \in PruneOrphanBlocks : mapOrphanBlocks' = kept \cup {b}
    /\ UNCHANGED <<indexVars, statusVars, chainVars, vWorkQueue, cur,
                   pindexOldTip, ret, pc, dbVars, boundVars>>

(* ProcessBlock's loop over the orphans that depended on the block at the  *)
(* head of vWorkQueue.                                                     *)
AcceptOrphan(b) ==
    /\ pc = "orphans"
    /\ vWorkQueue # <<>>
    /\ b \in mapOrphanBlocks /\ Parent[b] = Head(vWorkQueue)
    /\ b \notin mapBlockIndex
    /\ b \notin ContextBad
    /\ AddToBlockIndex(b)
    /\ UNCHANGED <<mapOrphanBlocks, vWorkQueue, ret, boundVars>>

(* An orphan AcceptBlock refuses is dropped; its own orphans stay.         *)
RefuseOrphan(b) ==
    /\ pc = "orphans"
    /\ vWorkQueue # <<>>
    /\ b \in mapOrphanBlocks /\ Parent[b] = Head(vWorkQueue)
    /\ b \in mapBlockIndex \cup ContextBad
    /\ mapOrphanBlocks' = mapOrphanBlocks \ {b}
    /\ UNCHANGED <<indexVars, statusVars, chainVars, vWorkQueue, cur,
                   pindexOldTip, ret, pc, dbVars, boundVars>>

NextInWorkQueue ==
    /\ pc = "orphans"
    /\ \A b \in mapOrphanBlocks : vWorkQueue # <<>> => Parent[b] # Head(vWorkQueue)
    /\ IF vWorkQueue = <<>>
       THEN pc' = "idle" /\ UNCHANGED vWorkQueue
       ELSE vWorkQueue' = Tail(vWorkQueue) /\ UNCHANGED pc
    /\ UNCHANGED <<indexVars, statusVars, chainVars, mapOrphanBlocks, cur,
                   pindexOldTip, ret, dbVars, boundVars>>

-----------------------------------------------------------------------------
(* ActivateBestChain.                                                      *)

(* What FindMostWorkChain's first loop walks chainMostWork back over, and  *)
(* where it stops (a set of one).                                          *)
BackedOver == IF chainMostWork = NoBlock THEN {} ELSE
    {b \in Chain[chainMostWork] :
        \A c \in Chain[chainMostWork] : Height[c] >= Height[b] => c \in failed}

BackedTo ==
    IF chainMostWork = NoBlock \/ BackedOver = Chain[chainMostWork]
    THEN {NoBlock}
    ELSE {b \in Chain[chainMostWork] \ BackedOver :
             \A c \in Chain[chainMostWork] \ BackedOver : Height[c] <= Height[b]}

(* The failed blocks between the active chain and a candidate.             *)
FailedOnPath(c) == (Chain[c] \ Chain[chainActive]) \cap failed

Candidates == setBlockIndexValid \ BackedOver

(* Mutant: only the candidate's own flag is looked at. *)
ViableIgnoringAncestors == {c \in Candidates : c \notin failed}

Viable == {c \in Candidates : FailedOnPath(c) = {}}

(* The candidates the second loop meets before the best viable one, and    *)
(* the blocks it marks BLOCK_FAILED_CHILD and erases on their account.     *)
PassedOver == {c \in Candidates :
                  FailedOnPath(c) # {} /\ \A v \in Viable : Worse(v, c)}

FailedChildren ==
    {b \in Blocks : \E c \in PassedOver :
        /\ b \in Chain[c]
        /\ \A f \in FailedOnPath(c) : Height[f] < Height[b]}

(* The best viable candidate (a set of one), unless where the first loop   *)
(* stopped is no worse.                                                    *)
Best == {v \in Viable : \A w \in Viable : w = v \/ Worse(w, v)}

FindMostWorkChain ==
    /\ pc = "find"
    /\ failed' = failed \cup FailedChildren
    /\ setBlockIndexValid' = Candidates \ FailedChildren
    /\ \E back \in BackedTo :
          \/ /\ Viable = {}
             /\ chainMostWork' = back
          \/ \E best \in Best :
                chainMostWork' = IF back # NoBlock /\ ~Worse(back, best)
                                 THEN back ELSE best
    /\ pc' = "gate"
    /\ UNCHANGED <<indexVars, scripts, chainActive, coinsBest, callVars, dbVars,
                   boundVars>>

(* Mutant: the heights of the two tips are compared. *)
ReorgDepthByHeights == Height[chainActive] - Height[chainMostWork]

(* The depth of the reorganisation from the active tip to chainMostWork.   *)
ReorgDepth == Height[chainActive] - Height[Fork(chainActive, chainMostWork)]

(* Mutant: an off-by-one in the comparison with MAX_REORG_DEPTH. *)
ReorgRefusedOffByOne ==
    /\ chainMostWork # NoBlock
    /\ Height[chainActive] >= LWMA3ForkHeight
    /\ ReorgDepth > MaxReorgDepth + 1

ReorgRefused ==
    /\ chainMostWork # NoBlock
    /\ Height[chainActive] >= LWMA3ForkHeight
    /\ ReorgDepth > MaxReorgDepth

ReorgGate ==
    /\ pc = "gate"
    /\ IF chainMostWork = NoBlock \/ ReorgRefused
       THEN pc' = "return" /\ ret' = ~ReorgRefused
       ELSE pc' = "step" /\ UNCHANGED ret
    /\ UNCHANGED <<indexVars, statusVars, chainVars, mapOrphanBlocks, vWorkQueue,
                   cur, pindexOldTip, dbVars, boundVars>>

(* WriteChainState after coinsBest moved to best: the coins cache is       *)
(* flushed, kept in memory (initial download), or the disk is full and     *)
(* nothing but the in-memory view has moved.                               *)
WriteChainState(best, tip) ==
    \/ /\ dbCoins' \in {best, dbCoins}
       /\ chainActive' = tip
       /\ pc' = "step"
       /\ UNCHANGED <<ret, diskErrors>>
    \/ /\ diskErrors < MaxDiskErrors
       /\ diskErrors' = diskErrors + 1
       /\ pc' = "return" /\ ret' = FALSE
       /\ UNCHANGED <<dbCoins, chainActive>>

Disconnecting == /\ pc = "step"
                 /\ chainMostWork # NoBlock
                 /\ chainActive \notin Chain[chainMostWork]

(* DisconnectTip: the coins view steps back to the parent, then the tip.   *)
DisconnectTip ==
    /\ Disconnecting
    /\ coinsBest = chainActive
    /\ coinsBest' = Parent[chainActive]
    /\ WriteChainState(coinsBest', Parent[chainActive])
    /\ UNCHANGED <<indexVars, statusVars, chainMostWork, mapOrphanBlocks,
                   vWorkQueue, cur, pindexOldTip, dbIndex, dbFailed, dbScripts,
                   restarts>>

(* The block chainMostWork[chainActive.Height() + 1]. *)
Connecting(b) ==
    /\ pc = "step"
    /\ chainMostWork # NoBlock
    /\ chainActive \in Chain[chainMostWork]
    /\ b \in Chain[chainMostWork]
    /\ Height[b] = Height[chainActive] + 1

(* The records ConnectBlock writes before the coins move: the block, the   *)
(* first time it is connected.                                             *)
(* Mutant: the record is left for the next flush of the block tree. *)
ConnectRecordDeferred(b) == dbScripts

ConnectRecord(b) == dbScripts \cup {b}

(* ConnectTip of a block that breaks no rule.                              *)

ConnectTip(b) ==
    /\ Connecting(b)
    /\ b \notin Corrupt \cup Bad
    /\ coinsBest = Parent[b]
    /\ coinsBest' = b
    /\ scripts' = scripts \cup {b}
    /\ IF b \in scripts
       THEN UNCHANGED <<dbScripts, dbFailed>>
       ELSE /\ dbScripts' = ConnectRecord(b)
            /\ dbFailed' = IF b \in failed THEN dbFailed \cup {b} ELSE dbFailed
    /\ WriteChainState(b, b)
    /\ UNCHANGED <<indexVars, failed, setBlockIndexValid, chainMostWork,
                   mapOrphanBlocks, vWorkQueue, cur, pindexOldTip, dbIndex,
                   restarts>>

(* Mutant: a damaged copy is taken for a broken rule. *)
CorruptionNeverPossible(b) == FALSE

(* state.CorruptionPossible(): what failed may be the copy, not the block. *)
CorruptionPossible(b) == b \in Corrupt

(* ConnectTip of a block ConnectBlock finds invalid: InvalidBlockFound,    *)
(* and ActivateBestChain starts over.  A damaged copy fails the repeated   *)
(* CheckBlock, ahead of the assertion on the view.                         *)
InvalidBlockFound(b) ==
    /\ Connecting(b)
    /\ b \in Corrupt \/ (b \in Bad /\ coinsBest = Parent[b])
    /\ IF CorruptionPossible(b)
       THEN UNCHANGED <<failed, dbFailed, setBlockIndexValid>>
       ELSE /\ failed' = failed \cup {b}
            /\ dbFailed' = dbFailed \cup {b}
            /\ setBlockIndexValid' = setBlockIndexValid \ {b}
    /\ pc' = "find"
    /\ UNCHANGED <<indexVars, scripts, chainVars, callVars, dbIndex, dbScripts,
                   dbCoins, boundVars>>

(* The block cannot be read back: state.Abort before anything has moved.   *)
ReadBlockFails ==
    /\ Disconnecting \/ \E b \in Blocks : Connecting(b)
    /\ diskErrors < MaxDiskErrors
    /\ diskErrors' = diskErrors + 1
    /\ pc' = "return" /\ ret' = FALSE
    /\ UNCHANGED <<indexVars, statusVars, chainVars, mapOrphanBlocks, vWorkQueue,
                   cur, pindexOldTip, dbVars, restarts>>

(* assert(pindex->GetBlockHash() == view.GetBestBlock()) of DisconnectBlock *)
(* and assert(hashPrevBlock == view.GetBestBlock()) of ConnectBlock.        *)
AssertFails ==
    /\ \/ Disconnecting /\ coinsBest # chainActive
       \/ \E b \in Blocks \ Corrupt : Connecting(b) /\ coinsBest # Parent[b]
    /\ pc' = "aborted"
    /\ UNCHANGED <<indexVars, statusVars, chainVars, callVars, dbVars, boundVars>>

ActivationComplete ==
    /\ pc = "step"
    /\ chainActive = chainMostWork
    /\ pc' = "return" /\ ret' = TRUE
    /\ UNCHANGED <<indexVars, statusVars, chainVars, mapOrphanBlocks, vWorkQueue,
                   cur, pindexOldTip, dbVars, boundVars>>

(* Mutant: the hash is queued after the block has been let go. *)
AcceptedHashAfterRelease == NoBlock

(* What ProcessBlock pushes on vWorkQueue. *)
AcceptedHash == cur

(* Mutant: orphans of orphans are not looked for. *)
RequeueNothing == vWorkQueue

Requeue == IF ret THEN Append(vWorkQueue, AcceptedHash) ELSE vWorkQueue

(* Back through AddToBlockIndex and AcceptBlock to their caller: AppInit2  *)
(* at start-up, the orphan loop, or ProcessBlock itself.                   *)
Return ==
    /\ pc = "return"
    /\ cur' = NoBlock
    /\ \/ /\ cur = NoBlock
          /\ pc' = IF ret THEN "idle" ELSE "exited"
          /\ UNCHANGED <<mapOrphanBlocks, vWorkQueue>>
       \/ /\ cur # NoBlock /\ cur \in mapOrphanBlocks
          /\ mapOrphanBlocks' = mapOrphanBlocks \ {cur}
          /\ vWorkQueue' = Requeue
          /\ pc' = "orphans"
       \/ /\ cur # NoBlock /\ cur \notin mapOrphanBlocks
          /\ IF ret THEN vWorkQueue' = <<AcceptedHash>> /\ pc' = "orphans"
                    ELSE pc' = "idle" /\ UNCHANGED vWorkQueue
          /\ UNCHANGED mapOrphanBlocks
    /\ UNCHANGED <<indexVars, statusVars, chainVars, pindexOldTip, ret, dbVars,
                   boundVars>>

-----------------------------------------------------------------------------
(* The process dies, is shut down, and starts again.                       *)

(* Shutdown() under cs_main flushes the coins cache. *)
Shutdown ==
    /\ pc = "idle" /\ restarts < MaxRestarts
    /\ dbCoins' = coinsBest
    /\ pc' = "down" /\ restarts' = restarts + 1
    /\ UNCHANGED <<indexVars, statusVars, chainVars, callVars, dbIndex, dbFailed,
                   dbScripts, diskErrors>>

(* The process is killed, or ends in a failed assertion. *)
Crash ==
    /\ pc \notin {"down", "exited"} /\ restarts < MaxRestarts
    /\ pc' = "down" /\ restarts' = restarts + 1
    /\ UNCHANGED <<indexVars, statusVars, chainVars, callVars, dbVars, diskErrors>>

(* Mutant: failed blocks are loaded as candidates too. *)
LoadedCandidatesWithFailed == dbIndex

(* Mutant: only the tip is a candidate after a reload. *)
LoadedCandidatesTipOnly == {dbCoins}

LoadedCandidates == dbIndex \ dbFailed

(* Mutant: the tip is the block with the most work, not the coins' best. *)
LoadedTipMostWork ==
    CHOOSE b \in dbIndex \ dbFailed : \A c \in dbIndex \ dbFailed : Work[c] <= Work[b]

LoadedTip == dbCoins

(* LoadBlockIndexDB, then the ActivateBestChain of AppInit2. *)
LoadBlockIndexDB ==
    /\ pc = "down"
    /\ dbCoins \in dbIndex
    /\ mapBlockIndex' = dbIndex
    /\ nSequenceId' = [b \in Blocks |-> 0]
    /\ nBlockSequenceId' = 1
    /\ addr' \in Addrs
    /\ failed' = dbFailed /\ scripts' = dbScripts
    /\ setBlockIndexValid' = LoadedCandidates
    /\ chainActive' = LoadedTip /\ coinsBest' = dbCoins /\ chainMostWork' = NoBlock
    /\ mapOrphanBlocks' = {} /\ vWorkQueue' = <<>> /\ cur' = NoBlock
    /\ pindexOldTip' = LoadedTip /\ ret' = TRUE
    /\ pc' = "find"
    /\ UNCHANGED <<dbVars, boundVars>>

-----------------------------------------------------------------------------
(* The steps of the thread inside ProcessBlock or AppInit2. *)
Step ==
    \/ \E b \in Blocks : AcceptOrphan(b)
    \/ \E b \in Blocks : RefuseOrphan(b)
    \/ NextInWorkQueue
    \/ FindMostWorkChain
    \/ ReorgGate
    \/ DisconnectTip
    \/ \E b \in Blocks : ConnectTip(b)
    \/ \E b \in Blocks : InvalidBlockFound(b)
    \/ ReadBlockFails
    \/ AssertFails
    \/ ActivationComplete
    \/ Return

Next ==
    \/ \E b \in Blocks \ {Genesis} : ReceiveBlock(b)
    \/ \E b \in Blocks \ {Genesis} : ReceiveOrphan(b)
    \/ Step
    \/ Shutdown
    \/ Crash
    \/ LoadBlockIndexDB

Spec == Init /\ [][Next]_vars

(* The thread that holds cs_main runs on: nothing it waits for depends on  *)
(* anyone else.  Nothing is assumed of peers, crashes or the operator.     *)
FairSpec == Spec /\ WF_vars(Step)

-----------------------------------------------------------------------------
IndexTypeOK ==
    /\ mapBlockIndex \subseteq Blocks
    /\ nSequenceId \in [Blocks -> Nat] /\ nBlockSequenceId \in Nat
    /\ addr \in Addrs
StatusTypeOK ==
    failed \subseteq Blocks /\ scripts \subseteq Blocks /\ setBlockIndexValid \subseteq Blocks
ChainTypeOK ==
    chainActive \in Blocks /\ chainMostWork \in Blocks \cup {NoBlock} /\ coinsBest \in Blocks
CallTypeOK ==
    /\ mapOrphanBlocks \subseteq Blocks \ {Genesis} /\ vWorkQueue \in Seq(Blocks)
    /\ cur \in Blocks \cup {NoBlock} /\ pindexOldTip \in Blocks
    /\ ret \in BOOLEAN
PcTypeOK ==
    pc \in {"idle", "orphans", "find", "gate", "step", "return", "down", "exited",
            "aborted"}
DbTypeOK ==
    /\ dbIndex \subseteq Blocks /\ dbFailed \subseteq Blocks
    /\ dbScripts \subseteq Blocks /\ dbCoins \in Blocks
BoundTypeOK == restarts \in 0 .. MaxRestarts /\ diskErrors \in 0 .. MaxDiskErrors

TypeOK ==
    /\ IndexTypeOK /\ StatusTypeOK /\ ChainTypeOK /\ CallTypeOK /\ PcTypeOK
    /\ DbTypeOK /\ BoundTypeOK

Alive == pc \notin {"down", "exited", "aborted"}

(* The candidate set is exactly the indexed blocks without a failed flag.  *)
(* "Must contain those who aren't failed" (main.cpp:107) keeps every       *)
(* usable block eligible through reorganisations and reloads; the converse *)
(* is what makes FindMostWorkChain's loop end, since a failed block met at *)
(* the head of the set would be skipped without being erased.              *)
CandidatesExact == Alive => setBlockIndexValid = mapBlockIndex \ failed

(* Every block of the active chain has been fully validated, has undo data *)
(* for DisconnectTip and carries no failed flag, at every step of a        *)
(* reorganisation and after every reload.                                  *)
ActiveChainValid ==
    /\ chainActive \in mapBlockIndex
    /\ Chain[chainActive] \subseteq scripts
    /\ Chain[chainActive] \cap (failed \cup Bad) = {}

(* A failed flag is justified: a block carries one only if it or one of    *)
(* its ancestors really breaks a rule.  A damaged copy on disk, a full     *)
(* disk or a death in mid-reorganisation never condemns a valid chain.     *)
FailedIsJustified == \A b \in failed \cup dbFailed : Chain[b] \cap Bad # {}

(* If the process dies now, the databases it leaves behind can be loaded:  *)
(* the coins database's best block is in the block tree database, and so   *)
(* is every ancestor, validated, with undo data and not marked failed.     *)
Recoverable ==
    /\ Chain[dbCoins] \subseteq dbIndex \cap dbScripts
    /\ Chain[dbCoins] \cap dbFailed = {}

(* A full disk can leave the coins view one block off the active chain     *)
(* until the process ends, but ActivateBestChain never reports success on  *)
(* top of such a state.                                                    *)
SuccessMeansViewOnTip == Alive /\ ret => coinsBest = chainActive

(* When ActivateBestChain reports success no indexed block with a chain    *)
(* free of known-failed blocks is preferred to the tip.                    *)
BestWhenComplete ==
    pc = "return" /\ ret =>
        \A b \in mapBlockIndex : Chain[b] \cap failed = {} => ~Worse(chainActive, b)

(* An orphan block waits for a parent the node does not have: whatever     *)
(* completes the parent also takes its orphans.  (After a failure of the    *)
(* disk the call returns early, and the process is on its way out.)        *)
OrphansWait ==
    pc = "idle" /\ diskErrors = 0 => \A b \in mapOrphanBlocks : Parent[b] \notin mapBlockIndex

(* A tip is given up only for a chain with more work or, with equal work, *)
(* for one that was not received later (blocks loaded from disk all count *)
(* as received at once): the first-seen rule, through every fallback from *)
(* an invalid branch.                                                      *)
TipAbandonedForBetter ==
    [][chainActive # Genesis /\ chainActive' = Parent[chainActive] /\ pc # "down" =>
          \/ Work[chainMostWork] > Work[chainActive]
          \/ /\ Work[chainMostWork] = Work[chainActive]
             /\ nSequenceId[chainMostWork] <= nSequenceId[chainActive]]_vars

(* pow.h:27: one call of ActivateBestChain does not unwind more than       *)
(* MAX_REORG_DEPTH blocks of the tip it found.                             *)
ReorgBounded ==
    /\ pc \in {"find", "gate", "step", "return"}
    /\ Height[pindexOldTip] >= LWMA3ForkHeight
    => Height[pindexOldTip] - Height[Fork(pindexOldTip, chainActive)] <= MaxReorgDepth

(* A valid block that extends the tip becomes the tip, whatever else the   *)
(* node has refused (research/max-reorg-depth-validation.md:52).           *)
ExtensionConnected ==
    /\ pc = "return" /\ cur # NoBlock
    /\ Parent[cur] = pindexOldTip
    /\ Chain[cur] \cap Bad = {}
    => Work[chainActive] >= Work[cur]

(* A node that could run before a restart can run after it.                *)
NeverRefusesToStart == pc # "exited"

(* main.cpp:2205 and 2080: the coins view stands at the block the active   *)
(* chain is about to leave or extend; main.cpp:2523: a block that is       *)
(* connected extends the tip.                                              *)
AssertionsHold == pc # "aborted"

(* Every activation ends: the loops of FindMostWorkChain and               *)
(* ActivateBestChain cannot chase each other forever.                      *)
ActivationEnds == pc = "find" ~> pc \in {"orphans", "idle", "exited", "down", "aborted"}

(* Every indexed block with a valid chain is eventually matched or         *)
(* outweighed by the tip, or the process is gone (its block tree record    *)
(* brings it back at the next start).                                      *)
ValidBlocksOutweighed ==
    \A b \in Blocks :
        b \in mapBlockIndex /\ Chain[b] \cap Bad = {}
        ~> Work[chainActive] >= Work[b] \/ ~Alive

=============================================================================
