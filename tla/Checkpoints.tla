---------------------------- MODULE Checkpoints ----------------------------
(***************************************************************************)
(* The two kinds of checkpoint a node learns at run time, beside           *)
(* ChainActivation (src/checkpoints.cpp, src/main.cpp): the rolling ones,  *)
(* which it makes itself ROLLING_DEPTH below every block it connects and   *)
(* keeps in rolling_checkpoints.dat, and the synchronised one, which the   *)
(* holder of the Conclave's first key broadcasts.  Both are consulted when *)
(* a block is accepted and never when a chain is activated.                *)
(***************************************************************************)
EXTENDS ChainActivation

CONSTANTS
    ROLLING_DEPTH,
    ROLLING_KEEP,
    RollingActivation,  \* GetRollingCheckpointActivationHeight()
    InitialDownload,    \* IsInitialBlockDownload(), for the whole behaviour
    Broadcast           \* the blocks the key's holder may name

ASSUME CheckpointAssumption ==
    /\ ROLLING_DEPTH \in Nat /\ ROLLING_KEEP \in Nat /\ RollingActivation \in Nat
    /\ InitialDownload \in BOOLEAN
    /\ Broadcast \subseteq Blocks

VARIABLES
    mapCheckpointsRolling, \* height -> block
    rollingFile,           \* of rolling_checkpoints.dat, the first record of a height
    hashSyncCheckpoint,    \* also in the block tree database, written together
    hashPendingCheckpoint, \* NoBlock when there is none
    fPendingSeen           \* AcceptBlock has been through AcceptPendingSyncCheckpoint

rollingVars == <<mapCheckpointsRolling, rollingFile>>
syncVars == <<hashSyncCheckpoint, hashPendingCheckpoint, fPendingSeen>>
checkpointVars == <<rollingVars, syncVars>>
allVars == <<vars, checkpointVars>>

None == [h \in {} |-> Genesis]

(* A database whose master key has changed starts with the last hardened    *)
(* checkpoint pending (ResetSyncCheckpoint).                               *)
CheckpointInit ==
    /\ Init
    /\ mapCheckpointsRolling = None /\ rollingFile = None
    /\ hashSyncCheckpoint = Genesis
    /\ hashPendingCheckpoint \in Broadcast \cup {NoBlock}
    /\ fPendingSeen = FALSE

-----------------------------------------------------------------------------
(* Accepting a block.                                                      *)

(* CheckBlock. *)
CheckBlock(b) ==
    Height[b] \in DOMAIN mapCheckpointsRolling => mapCheckpointsRolling[Height[b]] = b

(* GetLastCheckpoint: the highest whose block is in the index.             *)
ForkedBefore(b) ==
    \E h \in DOMAIN mapCheckpointsRolling :
        mapCheckpointsRolling[h] \in mapBlockIndex /\ Height[b] < h

(* Mutant: the heights are compared, not the chains. *)
CheckSyncCheckpointHeight(b) == Height[b] > Height[hashSyncCheckpoint]

(* CheckSyncCheckpoint, for a block that is not in the index.              *)
CheckSyncCheckpoint(b) ==
    hashSyncCheckpoint \in mapBlockIndex => hashSyncCheckpoint \in Chain[b]

PassesCheckpoints(b) == CheckBlock(b) /\ CheckSyncCheckpoint(b) /\ ~ForkedBefore(b)

CheckedReceiveBlock(b) ==
    /\ ReceiveBlock(b) /\ PassesCheckpoints(b)
    /\ UNCHANGED checkpointVars

CheckedAcceptOrphan(b) ==
    /\ AcceptOrphan(b) /\ PassesCheckpoints(b)
    /\ UNCHANGED checkpointVars

(* An orphan the checkpoints refuse goes the way of RefuseOrphan.          *)
CheckpointRefusesOrphan(b) ==
    /\ pc = "orphans" /\ vWorkQueue # <<>>
    /\ b \in mapOrphanBlocks \ mapBlockIndex /\ Parent[b] = Head(vWorkQueue)
    /\ ~PassesCheckpoints(b)
    /\ mapOrphanBlocks' = mapOrphanBlocks \ {b}
    /\ UNCHANGED <<indexVars, statusVars, chainVars, vWorkQueue, cur, pindexOldTip, ret, pc,
                   dbVars, boundVars, checkpointVars>>

-----------------------------------------------------------------------------
(* Rolling checkpoints.                                                    *)

Highest(S, n) == {h \in S : Cardinality({k \in S : k > h}) < n}

(* The map with what is beyond ROLLING_KEEP dropped, oldest first.         *)
Collected(map) == [h \in Highest(DOMAIN map, ROLLING_KEEP) |-> map[h]]

With(map, b) == [h \in DOMAIN map \cup {Height[b]} |-> IF h \in DOMAIN map THEN map[h] ELSE b]

(* MaybeRollForward, at the end of a ConnectTip that succeeded.            *)
MaybeRollForward(b) ==
    LET target == Height[b] - ROLLING_DEPTH
        locked == {a \in Chain[b] : Height[a] = target}
    IN  IF target < RollingActivation \/ target \in DOMAIN mapCheckpointsRolling
        THEN UNCHANGED rollingVars
        ELSE \E a \in locked :
                 /\ mapCheckpointsRolling' = Collected(With(mapCheckpointsRolling, a))
                 /\ rollingFile' = With(rollingFile, a)

(* WriteChainState: outside the initial download the coins are saved with   *)
(* every tip.                                                              *)
SavedWithTip == ~InitialDownload /\ pc' = "step" => dbCoins' = coinsBest'

CheckedConnectTip(b) ==
    /\ ConnectTip(b) /\ SavedWithTip
    /\ IF pc' = "step" THEN MaybeRollForward(b) ELSE UNCHANGED rollingVars
    /\ UNCHANGED syncVars

CheckedDisconnectTip == DisconnectTip /\ SavedWithTip /\ UNCHANGED checkpointVars

(* clearrollingcheckpoints: ClearRollingCheckpointsBelow, the file written  *)
(* anew from the map.                                                      *)
ClearRollingCheckpointsBelow(nBelowHeight) ==
    /\ pc = "idle"
    /\ mapCheckpointsRolling' =
           [h \in {k \in DOMAIN mapCheckpointsRolling : k >= nBelowHeight} |-> mapCheckpointsRolling[h]]
    /\ rollingFile' = mapCheckpointsRolling'
    /\ UNCHANGED <<vars, syncVars>>

-----------------------------------------------------------------------------
(* The synchronised checkpoint.                                            *)

(* ValidateSyncCheckpoint: a descendant of the current one.                *)
ValidateSyncCheckpoint(b) ==
    hashSyncCheckpoint \in mapBlockIndex =>
        hashSyncCheckpoint \in Chain[b] \ {b}

(* IsInMainChain() looks at the status of the block, which says that it has *)
(* been connected once.                                                    *)
IsInMainChain(b) == b \in scripts

(* ConnectTip of a checkpoint's block: it asserts that the block extends    *)
(* the tip, and nothing has disconnected a block for it.                   *)
AssertsExtension(b) ==
    /\ Parent[b] # chainActive \/ (b \notin Corrupt /\ coinsBest # Parent[b])
    /\ pc' = "aborted"
    /\ UNCHANGED <<indexVars, statusVars, chainVars, callVars, dbVars, boundVars, checkpointVars>>

(* The block cannot be read, or ConnectBlock refuses it.                   *)
CheckpointNotConnected(b) ==
    /\ \/ /\ diskErrors < MaxDiskErrors
          /\ diskErrors' = diskErrors + 1
          /\ UNCHANGED statusVars /\ UNCHANGED dbVars
       \/ /\ Parent[b] = chainActive
          /\ b \in Corrupt \/ (b \in Bad /\ coinsBest = Parent[b])
          /\ IF CorruptionPossible(b)
             THEN UNCHANGED statusVars /\ UNCHANGED dbVars
             ELSE /\ failed' = failed \cup {b} /\ dbFailed' = dbFailed \cup {b}
                  /\ setBlockIndexValid' = setBlockIndexValid \ {b}
                  /\ UNCHANGED <<scripts, dbIndex, dbScripts, dbCoins>>
          /\ UNCHANGED diskErrors
    /\ UNCHANGED <<indexVars, chainVars, callVars, restarts, rollingVars,
                   hashSyncCheckpoint, hashPendingCheckpoint>>

(* Connected, and the checkpoint written; or the disk is full when the view *)
(* has moved.                                                              *)
CheckpointConnected(b) ==
    /\ Parent[b] = chainActive /\ b \notin Corrupt \cup Bad /\ coinsBest = Parent[b]
    /\ coinsBest' = b
    /\ scripts' = scripts \cup {b} /\ dbScripts' = ConnectRecord(b)
    /\ dbFailed' = IF b \in failed THEN dbFailed \cup {b} ELSE dbFailed
    /\ \/ /\ dbCoins' \in IF InitialDownload THEN {b, dbCoins} ELSE {b}
          /\ chainActive' = b
          /\ hashSyncCheckpoint' = b /\ hashPendingCheckpoint' = NoBlock
          /\ MaybeRollForward(b)
          /\ UNCHANGED diskErrors
       \/ /\ diskErrors < MaxDiskErrors
          /\ diskErrors' = diskErrors + 1
          /\ UNCHANGED <<dbCoins, chainActive, hashSyncCheckpoint, hashPendingCheckpoint, rollingVars>>
    /\ UNCHANGED <<indexVars, failed, setBlockIndexValid, chainMostWork, callVars, dbIndex, restarts>>

(* What ProcessSyncCheckpoint and AcceptPendingSyncCheckpoint do with a     *)
(* block of the index that passes ValidateSyncCheckpoint.                  *)
AcceptSyncCheckpoint(b) ==
    \/ /\ IsInMainChain(b)
       /\ hashSyncCheckpoint' = b /\ hashPendingCheckpoint' = NoBlock
       /\ UNCHANGED <<vars, rollingVars>>
    \/ ~IsInMainChain(b) /\ (CheckpointNotConnected(b) \/ CheckpointConnected(b)) /\ UNCHANGED pc

(* The "checkpoint" message: it takes cs_hashSyncCheckpoint and not         *)
(* cs_main; here it comes when no block is being processed.                *)
ProcessSyncCheckpoint(b) ==
    /\ pc = "idle"
    /\ b \in Broadcast
    /\ \/ /\ b \notin mapBlockIndex
          /\ hashPendingCheckpoint' = b
          /\ UNCHANGED <<vars, rollingVars, hashSyncCheckpoint, fPendingSeen>>
       \/ /\ b \in mapBlockIndex /\ ValidateSyncCheckpoint(b)
          /\ \/ AcceptSyncCheckpoint(b) /\ UNCHANGED fPendingSeen
             \/ ~IsInMainChain(b) /\ AssertsExtension(b)

(* AcceptBlock, after AddToBlockIndex has succeeded, asks for it.          *)
PendingWanted ==
    /\ pc = "return" /\ ret /\ cur # NoBlock
    /\ hashPendingCheckpoint \in mapBlockIndex
    /\ ~fPendingSeen

AcceptPendingSyncCheckpoint ==
    /\ PendingWanted
    /\ LET b == hashPendingCheckpoint IN
       IF ~ValidateSyncCheckpoint(b)
       THEN /\ hashPendingCheckpoint' = NoBlock /\ fPendingSeen' = TRUE
            /\ UNCHANGED <<vars, rollingVars, hashSyncCheckpoint>>
       ELSE \/ AcceptSyncCheckpoint(b) /\ fPendingSeen' = TRUE
            \/ ~IsInMainChain(b) /\ AssertsExtension(b)

CheckedReturn ==
    /\ Return /\ ~PendingWanted
    /\ fPendingSeen' = FALSE
    /\ UNCHANGED <<rollingVars, hashSyncCheckpoint, hashPendingCheckpoint>>

-----------------------------------------------------------------------------
(* LoadRollingCheckpoints, at start-up: records up to the last built-in     *)
(* checkpoint, here genesis, are skipped.                                  *)
Loaded == Collected([h \in DOMAIN rollingFile \ {0} |-> rollingFile[h]])

(* LoadSyncCheckpoint finds what WriteSyncCheckpoint wrote; what was        *)
(* pending is forgotten.                                                   *)
CheckedLoad ==
    /\ LoadBlockIndexDB
    /\ mapCheckpointsRolling' = Loaded
    /\ hashPendingCheckpoint' = NoBlock /\ fPendingSeen' = FALSE
    /\ UNCHANGED <<rollingFile, hashSyncCheckpoint>>

(* What goes on as without checkpoints. *)
Unchecked ==
    /\ \/ \E b \in Blocks \ {Genesis} : ReceiveOrphan(b)
       \/ \E b \in Blocks : RefuseOrphan(b) \/ InvalidBlockFound(b)
       \/ NextInWorkQueue \/ FindMostWorkChain \/ ReorgGate
       \/ ReadBlockFails \/ AssertFails \/ ActivationComplete
       \/ Shutdown \/ Crash
    /\ UNCHANGED checkpointVars

CheckpointNext ==
    \/ \E b \in Blocks \ {Genesis} : CheckedReceiveBlock(b)
    \/ \E b \in Blocks : CheckedAcceptOrphan(b) \/ CheckpointRefusesOrphan(b)
    \/ \E b \in Blocks : CheckedConnectTip(b)
    \/ CheckedDisconnectTip
    \/ CheckedReturn
    \/ CheckedLoad
    \/ \E b \in Blocks : ProcessSyncCheckpoint(b)
    \/ AcceptPendingSyncCheckpoint
    \/ \E h \in DOMAIN mapCheckpointsRolling : ClearRollingCheckpointsBelow(h + 1)
    \/ Unchecked

CheckpointSpec == CheckpointInit /\ [][CheckpointNext]_allVars

-----------------------------------------------------------------------------
(* pow.h:87-91: what is locked in ROLLING_DEPTH below the tip stays on the  *)
(* active chain, although nothing consults it when a chain is activated:    *)
(* the depth gate is what keeps it there, through every reorganisation,     *)
(* every death in the middle of one (from which the gate measures anew) and *)
(* every reload of the file.  Outside the initial download, and with        *)
(* ROLLING_DEPTH no less than MaxReorgDepth for every activation cut short. *)
RollingOnActive ==
    Alive =>
        \A map \in {mapCheckpointsRolling, rollingFile} : \A h \in DOMAIN map :
            map[h] \in Chain[chainActive]

(* The synchronised checkpoint moves only up its own chain, whether it      *)
(* comes at once, was pending while its block was on the way, or is read    *)
(* back after a death; and no block enters the index beside it, from a peer *)
(* or from the orphans.                                                    *)
SyncCheckpointFences ==
    [][/\ hashSyncCheckpoint \in Chain[hashSyncCheckpoint']
       /\ pc # "down" =>
             \A b \in mapBlockIndex' \ mapBlockIndex : hashSyncCheckpoint \in Chain[b]]_allVars

=============================================================================
