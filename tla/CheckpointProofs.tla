-------------------------- MODULE CheckpointProofs --------------------------
(* The synchronised checkpoint and the block it connects by itself, for     *)
(* every tree, every broadcast and every death: the invariant of            *)
(* ChainActivation survives, and the checkpoint fences its chain.           *)
EXTENDS Checkpoints, ChainActivationProofs, FiniteSetTheorems

(* The checkpoint in force is a block of the index: it is written after it. *)
(* What is pending has been broadcast.                                      *)
SyncIndexed ==
    /\ hashSyncCheckpoint \in mapBlockIndex
    /\ hashPendingCheckpoint \in Broadcast \cup {NoBlock}

CInv == IInv /\ SyncIndexed

LEMMA CheckpointInitInv == CheckpointInit => CInv
<1> SUFFICES ASSUME CheckpointInit PROVE CInv
  OBVIOUS
<1>1. IInv
  BY IInvInit DEF CheckpointInit
<1>2. SyncIndexed
  BY CheckpointAssumption DEF CheckpointInit, Init, SyncIndexed
<1> QED
  BY <1>1, <1>2 DEF CInv

-----------------------------------------------------------------------------
(* A block connected for a checkpoint, outside of ActivateBestChain.        *)

LEMMA ConnectedKeepsIInv ==
    ASSUME IInv, NEW b \in Blocks, b \in mapBlockIndex, ~IsInMainChain(b),
           CheckpointConnected(b), UNCHANGED pc, Alive
    PROVE  IInv'
<1>1. b # Genesis
  BY ChainFacts DEF IInv, TipsValidated, Validated, TypeOK, ChainTypeOK, IsInMainChain
<1>2. /\ UNCHANGED <<mapBlockIndex, failed, setBlockIndexValid, chainMostWork, cur,
                     vWorkQueue, dbIndex>>
      /\ UNCHANGED <<indexVars, callVars, pc, restarts>>
      /\ scripts' = scripts \cup {b} /\ dbScripts' = dbScripts \cup {b}
      /\ dbFailed' \subseteq dbFailed \cup (failed \cap {b})
      /\ coinsBest' = b /\ chainActive' \in {b, chainActive}
      /\ dbCoins' \in {b, dbCoins}
      /\ diskErrors' = diskErrors \/ (diskErrors < MaxDiskErrors /\ diskErrors' = diskErrors + 1)
  BY DEF CheckpointConnected, ConnectRecord, indexVars, callVars
<1>3. TypeOK'
  <2>1. StatusTypeOK' /\ ChainTypeOK'
    BY <1>2 DEF IInv, TypeOK, StatusTypeOK, ChainTypeOK
  <2>2. DbTypeOK'
    BY <1>2 DEF IInv, TypeOK, StatusTypeOK, DbTypeOK
  <2>3. BoundTypeOK'
    BY <1>2, ParameterAssumption DEF IInv, TypeOK, BoundTypeOK
  <2> QED
    BY <1>2, <2>1, <2>2, <2>3, TypeFrame DEF IInv, TypeOK
<1>4. TipsValidated'
  <2>1. Chain[b] = Chain[chainActive] \cup {b} /\ b \notin Bad
    BY <1>1, TreeAssumption DEF CheckpointConnected
  <2>2. Chain[b] \subseteq mapBlockIndex /\ Chain[b] \subseteq scripts \cup {b}
        /\ Chain[b] \cap Bad = {}
    BY <2>1 DEF IInv, TipsValidated, Validated
  <2> QED
    BY <1>2, <2>2 DEF IInv, TipsValidated, Validated
<1>5. IndexRecorded' /\ IndexClosed' /\ HandlesIndexed'
  BY <1>2 DEF IInv, IndexRecorded, IndexClosed, HandlesIndexed
<1>6. FailedIndexed' /\ FailedIsJustified' /\ CandidatesExact'
  BY <1>2 DEF IInv, FailedIndexed, FailedIsJustified, CandidatesExact, Alive
<1> QED
  BY <1>3, <1>4, <1>5, <1>6 DEF IInv

LEMMA NotConnectedKeepsIInv ==
    ASSUME IInv, NEW b \in Blocks, b \in mapBlockIndex,
           CheckpointNotConnected(b), UNCHANGED pc, Alive
    PROVE  IInv'
<1>1. /\ UNCHANGED <<indexVars, chainVars, callVars, pc, restarts>>
      /\ UNCHANGED <<mapBlockIndex, chainMostWork, cur, vWorkQueue, chainActive, coinsBest>>
      /\ UNCHANGED <<scripts, dbIndex, dbScripts, dbCoins>>
      /\ \/ UNCHANGED <<failed, dbFailed, setBlockIndexValid>>
         \/ /\ b \in Bad
            /\ failed' = failed \cup {b} /\ dbFailed' = dbFailed \cup {b}
            /\ setBlockIndexValid' = setBlockIndexValid \ {b}
      /\ diskErrors' = diskErrors \/ (diskErrors < MaxDiskErrors /\ diskErrors' = diskErrors + 1)
  BY DEF CheckpointNotConnected, CorruptionPossible, indexVars, chainVars, callVars, statusVars, dbVars
<1>2. TypeOK'
  <2>1. StatusTypeOK' /\ DbTypeOK'
    BY <1>1 DEF IInv, TypeOK, StatusTypeOK, DbTypeOK
  <2>2. BoundTypeOK'
    BY <1>1, ParameterAssumption DEF IInv, TypeOK, BoundTypeOK
  <2> QED
    BY <1>1, <2>1, <2>2, TypeFrame DEF IInv, TypeOK
<1>3. TipsValidated' /\ IndexRecorded' /\ IndexClosed' /\ HandlesIndexed'
  BY <1>1 DEF IInv, TipsValidated, Validated, IndexRecorded, IndexClosed, HandlesIndexed
<1>4. FailedIndexed' /\ FailedIsJustified' /\ CandidatesExact'
  BY <1>1, ChainFacts DEF IInv, FailedIndexed, FailedIsJustified, CandidatesExact, Alive
<1> QED
  BY <1>2, <1>3, <1>4 DEF IInv

LEMMA AssertsKeepsIInv ==
    ASSUME IInv, NEW b \in Blocks, AssertsExtension(b)
    PROVE  IInv'
<1>1. /\ UNCHANGED <<indexVars, statusVars, chainVars, callVars, dbVars, boundVars>>
      /\ UNCHANGED <<vWorkQueue, cur>> /\ pc' = "aborted"
  BY DEF AssertsExtension, callVars
<1>2. TypeOK'
  <2>1. PcTypeOK'
    BY <1>1 DEF PcTypeOK
  <2> QED
    BY <1>1, <2>1, TypeFrame DEF IInv, TypeOK
<1>3. ~Alive'
  BY <1>1 DEF Alive
<1> QED
  BY <1>1, <1>2, <1>3, InvFrame DEF IInv

LEMMA StutterKeepsIInv == IInv /\ UNCHANGED vars => IInv'
BY IInvStep

(* What a checkpoint that passes ValidateSyncCheckpoint does.               *)
LEMMA AcceptSyncKeeps ==
    ASSUME CInv, NEW b \in mapBlockIndex, ValidateSyncCheckpoint(b), AcceptSyncCheckpoint(b), Alive
    PROVE  /\ IInv' /\ mapBlockIndex' = mapBlockIndex
           /\ \/ UNCHANGED <<hashSyncCheckpoint, hashPendingCheckpoint>>
              \/ /\ hashSyncCheckpoint' = b /\ hashPendingCheckpoint' = NoBlock
                 /\ hashSyncCheckpoint \in Chain[b]
<1>1. b \in Blocks /\ IInv
  BY DEF CInv, IInv, TypeOK, IndexTypeOK
<1>2. hashSyncCheckpoint \in Chain[b]
  BY DEF CInv, SyncIndexed, ValidateSyncCheckpoint
<1>3. CASE IsInMainChain(b) /\ hashSyncCheckpoint' = b /\ hashPendingCheckpoint' = NoBlock
           /\ UNCHANGED <<vars, rollingVars>>
  BY <1>1, <1>2, <1>3, StutterKeepsIInv DEF vars, indexVars
<1>4. CASE ~IsInMainChain(b) /\ CheckpointNotConnected(b) /\ UNCHANGED pc
  <2>1. UNCHANGED <<hashSyncCheckpoint, hashPendingCheckpoint, mapBlockIndex>>
    BY <1>4 DEF CheckpointNotConnected, indexVars
  <2> QED
    BY <1>1, <1>4, <2>1, NotConnectedKeepsIInv
<1>5. CASE ~IsInMainChain(b) /\ CheckpointConnected(b) /\ UNCHANGED pc
  <2>1. mapBlockIndex' = mapBlockIndex
        /\ \/ UNCHANGED <<hashSyncCheckpoint, hashPendingCheckpoint>>
           \/ hashSyncCheckpoint' = b /\ hashPendingCheckpoint' = NoBlock
    BY <1>5 DEF CheckpointConnected, indexVars
  <2> QED
    BY <1>1, <1>2, <1>5, <2>1, ConnectedKeepsIInv
<1> QED
  BY <1>3, <1>4, <1>5 DEF AcceptSyncCheckpoint

-----------------------------------------------------------------------------
(* Every step keeps CInv, moves the checkpoint up its chain, and adds no    *)
(* block beside it.                                                         *)

Fenced ==
    /\ hashSyncCheckpoint \in Chain[hashSyncCheckpoint']
    /\ \A b \in mapBlockIndex' \ mapBlockIndex : hashSyncCheckpoint \in Chain[b]

(* A step that moves neither the checkpoint nor what is pending.            *)
LEMMA CheckpointStays ==
    ASSUME CInv, IInv', hashSyncCheckpoint' = hashSyncCheckpoint,
           hashPendingCheckpoint' \in Broadcast \cup {NoBlock},
           mapBlockIndex \subseteq mapBlockIndex',
           \A b \in mapBlockIndex' \ mapBlockIndex : hashSyncCheckpoint \in Chain[b]
    PROVE  CInv' /\ Fenced
<1>1. hashSyncCheckpoint \in Blocks
  BY DEF CInv, SyncIndexed, IInv, TypeOK, IndexTypeOK
<1> QED
  BY <1>1, ChainFacts DEF CInv, SyncIndexed, Fenced

(* A step that leaves the index and the synchronised checkpoint alone.      *)
LEMMA Beside ==
    ASSUME CInv, IInv', UNCHANGED <<mapBlockIndex, hashSyncCheckpoint, hashPendingCheckpoint>>
    PROVE  CInv' /\ Fenced
BY CheckpointStays DEF CInv, SyncIndexed

LEMMA AddsFenced ==
    ASSUME CInv, IInv', NEW b \in Blocks, AddToBlockIndex(b), CheckSyncCheckpoint(b),
           UNCHANGED checkpointVars
    PROVE  CInv' /\ Fenced
<1>1. mapBlockIndex' = mapBlockIndex \cup {b} /\ hashSyncCheckpoint \in Chain[b]
      /\ UNCHANGED <<hashSyncCheckpoint, hashPendingCheckpoint>>
  BY DEF AddToBlockIndex, CheckSyncCheckpoint, CInv, SyncIndexed, checkpointVars, syncVars
<1> QED
  BY <1>1, CheckpointStays DEF CInv, SyncIndexed

LEMMA AcceptSyncFenced ==
    ASSUME CInv, NEW b \in mapBlockIndex, ValidateSyncCheckpoint(b), AcceptSyncCheckpoint(b), Alive
    PROVE  CInv' /\ Fenced
<1>1. CASE UNCHANGED <<hashSyncCheckpoint, hashPendingCheckpoint>>
  BY <1>1, AcceptSyncKeeps, Beside
<1>2. CASE /\ hashSyncCheckpoint' = b /\ hashPendingCheckpoint' = NoBlock
           /\ hashSyncCheckpoint \in Chain[b]
  BY <1>2, AcceptSyncKeeps DEF CInv, SyncIndexed, Fenced
<1> QED
  BY <1>1, <1>2, AcceptSyncKeeps

LEMMA AssertsFenced ==
    ASSUME CInv, NEW b \in Blocks, AssertsExtension(b)
    PROVE  CInv' /\ Fenced
<1>1. IInv' /\ UNCHANGED <<mapBlockIndex, hashSyncCheckpoint, hashPendingCheckpoint>>
  BY AssertsKeepsIInv DEF CInv, AssertsExtension, indexVars, checkpointVars, syncVars
<1> QED
  BY <1>1, Beside

LEMMA UncheckedFenced == ASSUME CInv, Unchecked PROVE CInv' /\ Fenced
<1>1. UNCHANGED <<hashSyncCheckpoint, hashPendingCheckpoint>>
  BY DEF Unchecked, checkpointVars, syncVars
<1>2. Next
  BY DEF Unchecked, Next, Step
<1>3. IInv'
  BY <1>2, IInvStep DEF CInv
<1>4. mapBlockIndex' = mapBlockIndex
  BY DEF Unchecked, ReceiveOrphan, RefuseOrphan, InvalidBlockFound, NextInWorkQueue,
         FindMostWorkChain, ReorgGate, ReadBlockFails, AssertFails, ActivationComplete,
         Shutdown, Crash, indexVars
<1> QED
  BY <1>1, <1>3, <1>4, Beside

LEMMA CheckpointStep ==
    ASSUME CInv, [CheckpointNext]_allVars
    PROVE  CInv' /\ Fenced
<1>0. IInv /\ SyncIndexed
  BY DEF CInv
<1>1. ASSUME NEW b \in Blocks \ {Genesis}, CheckedReceiveBlock(b) PROVE CInv' /\ Fenced
  <2>1. ReceiveBlock(b) /\ CheckSyncCheckpoint(b) /\ UNCHANGED checkpointVars
    BY <1>1 DEF CheckedReceiveBlock, PassesCheckpoints
  <2>2. IInv'
    BY <1>0, <2>1, IInvStep DEF Next
  <2> QED
    BY <2>1, <2>2, AddsFenced DEF ReceiveBlock
<1>2. ASSUME NEW b \in Blocks, CheckedAcceptOrphan(b) PROVE CInv' /\ Fenced
  <2>1. AcceptOrphan(b) /\ CheckSyncCheckpoint(b) /\ UNCHANGED checkpointVars
    BY <1>2 DEF CheckedAcceptOrphan, PassesCheckpoints
  <2>2. IInv'
    BY <1>0, <2>1, IInvStep DEF Next, Step
  <2> QED
    BY <2>1, <2>2, AddsFenced DEF AcceptOrphan
<1>3. ASSUME NEW b \in Blocks, CheckpointRefusesOrphan(b) PROVE CInv' /\ Fenced
  <2>1. /\ mapOrphanBlocks' \subseteq mapOrphanBlocks
        /\ UNCHANGED <<indexVars, statusVars, chainVars, vWorkQueue, cur, pindexOldTip, ret, pc,
                       dbVars, boundVars>>
        /\ UNCHANGED <<hashSyncCheckpoint, hashPendingCheckpoint, mapBlockIndex>>
    BY <1>3 DEF CheckpointRefusesOrphan, checkpointVars, syncVars, indexVars
  <2>2. TypeOK'
    <3>1. CallTypeOK'
      BY <1>0, <2>1 DEF IInv, TypeOK, CallTypeOK
    <3> QED
      BY <1>0, <2>1, <3>1, TypeFrame DEF IInv, TypeOK
  <2>3. Alive' => Alive
    BY <2>1 DEF Alive
  <2>4. IInv'
    BY <1>0, <2>1, <2>2, <2>3, InvFrame DEF IInv
  <2> QED
    BY <2>1, <2>4, Beside
<1>4. ASSUME NEW b \in Blocks, CheckedConnectTip(b) PROVE CInv' /\ Fenced
  <2>1. ConnectTip(b) /\ UNCHANGED <<hashSyncCheckpoint, hashPendingCheckpoint>>
    BY <1>4 DEF CheckedConnectTip, syncVars
  <2>2. IInv'
    BY <1>0, <2>1, IInvStep DEF Next, Step
  <2>3. mapBlockIndex' = mapBlockIndex
    BY <2>1 DEF ConnectTip, indexVars
  <2> QED
    BY <2>1, <2>2, <2>3, Beside
<1>5. CASE CheckedDisconnectTip
  <2>1. DisconnectTip /\ UNCHANGED <<hashSyncCheckpoint, hashPendingCheckpoint>>
    BY <1>5 DEF CheckedDisconnectTip, checkpointVars, syncVars
  <2>2. IInv'
    BY <1>0, <2>1, IInvStep DEF Next, Step
  <2>3. mapBlockIndex' = mapBlockIndex
    BY <2>1 DEF DisconnectTip, indexVars
  <2> QED
    BY <2>1, <2>2, <2>3, Beside
<1>6. CASE CheckedReturn
  <2>1. Return /\ UNCHANGED <<hashSyncCheckpoint, hashPendingCheckpoint>>
    BY <1>6 DEF CheckedReturn
  <2>2. IInv'
    BY <1>0, <2>1, IInvStep DEF Next, Step
  <2>3. mapBlockIndex' = mapBlockIndex
    BY <2>1 DEF Return, indexVars
  <2> QED
    BY <2>1, <2>2, <2>3, Beside
<1>7. CASE CheckedLoad
  <2>1. LoadBlockIndexDB /\ hashSyncCheckpoint' = hashSyncCheckpoint /\ hashPendingCheckpoint' = NoBlock
    BY <1>7 DEF CheckedLoad
  <2>2. IInv'
    BY <1>0, <2>1, IInvStep DEF Next
  <2>3. mapBlockIndex' = mapBlockIndex
    BY <1>0, <2>1 DEF LoadBlockIndexDB, IInv, IndexRecorded
  <2> QED
    BY <2>1, <2>2, <2>3, CheckpointStays
<1>8. ASSUME NEW b \in Blocks, ProcessSyncCheckpoint(b) PROVE CInv' /\ Fenced
  <2>1. Alive
    BY <1>8 DEF ProcessSyncCheckpoint, Alive
  <2>2. CASE hashPendingCheckpoint' = b /\ UNCHANGED <<vars, rollingVars, hashSyncCheckpoint, fPendingSeen>>
    <3>1. IInv' /\ mapBlockIndex' = mapBlockIndex
      BY <1>0, <2>2, StutterKeepsIInv DEF vars, indexVars
    <3>2. b \in Broadcast
      BY <1>8 DEF ProcessSyncCheckpoint
    <3> QED
      BY <2>2, <3>1, <3>2, CheckpointStays
  <2>3. CASE b \in mapBlockIndex /\ ValidateSyncCheckpoint(b) /\ AcceptSyncCheckpoint(b)
    BY <2>1, <2>3, AcceptSyncFenced
  <2>4. CASE AssertsExtension(b)
    BY <2>4, AssertsFenced
  <2> QED
    BY <1>8, <2>2, <2>3, <2>4 DEF ProcessSyncCheckpoint
<1>9. CASE AcceptPendingSyncCheckpoint
  <2> DEFINE b == hashPendingCheckpoint
  <2>1. Alive /\ b \in mapBlockIndex /\ b \in Blocks
    BY <1>0, <1>9 DEF AcceptPendingSyncCheckpoint, PendingWanted, Alive, IInv, TypeOK, IndexTypeOK
  <2>2. CASE hashPendingCheckpoint' = NoBlock /\ UNCHANGED <<vars, rollingVars, hashSyncCheckpoint>>
    <3>1. IInv' /\ mapBlockIndex' = mapBlockIndex
      BY <1>0, <2>2, StutterKeepsIInv DEF vars, indexVars
    <3> QED
      BY <2>2, <3>1, CheckpointStays
  <2>3. CASE ValidateSyncCheckpoint(b) /\ AcceptSyncCheckpoint(b)
    BY <2>1, <2>3, AcceptSyncFenced
  <2>4. CASE AssertsExtension(b)
    BY <2>1, <2>4, AssertsFenced
  <2> QED
    BY <1>9, <2>2, <2>3, <2>4 DEF AcceptPendingSyncCheckpoint
<1>10. ASSUME NEW h \in DOMAIN mapCheckpointsRolling, ClearRollingCheckpointsBelow(h + 1)
       PROVE  CInv' /\ Fenced
  <2>1. UNCHANGED vars /\ UNCHANGED <<hashSyncCheckpoint, hashPendingCheckpoint>>
    BY <1>10 DEF ClearRollingCheckpointsBelow, syncVars
  <2>2. IInv' /\ mapBlockIndex' = mapBlockIndex
    BY <1>0, <2>1, StutterKeepsIInv DEF vars, indexVars
  <2> QED
    BY <2>1, <2>2, Beside
<1>11. CASE Unchecked
  BY <1>11, UncheckedFenced
<1>12. CASE UNCHANGED allVars
  <2>1. UNCHANGED vars /\ UNCHANGED <<hashSyncCheckpoint, hashPendingCheckpoint>>
    BY <1>12 DEF allVars, checkpointVars, syncVars
  <2>2. IInv' /\ mapBlockIndex' = mapBlockIndex
    BY <1>0, <2>1, StutterKeepsIInv DEF vars, indexVars
  <2> QED
    BY <2>1, <2>2, Beside
<1> QED
  BY <1>1, <1>2, <1>3, <1>4, <1>5, <1>6, <1>7, <1>8, <1>9, <1>10, <1>11, <1>12 DEF CheckpointNext

-----------------------------------------------------------------------------
(* The inductive invariant of ChainActivation holds with checkpoints too,   *)
(* although ProcessSyncCheckpoint connects a block outside of               *)
(* ActivateBestChain; and the checkpoint in force is always indexed.        *)
THEOREM CheckpointInvariant == CheckpointSpec => []CInv
<1>1. CInv /\ [CheckpointNext]_allVars => CInv'
  BY CheckpointStep
<1> QED
  BY <1>1, CheckpointInitInv, PTL DEF CheckpointSpec

(* The databases can be loaded whenever the process dies, also in the       *)
(* middle of what a checkpoint set off.                                     *)
THEOREM RecoverableWithCheckpoints == CheckpointSpec => []Recoverable
<1>1. CInv => Recoverable
  BY ValidatedNotFailed
     DEF CInv, IInv, TipsValidated, Validated, TypeOK, DbTypeOK, IndexRecorded, Recoverable
<1> QED
  BY <1>1, CheckpointInvariant, PTL

(* The synchronised checkpoint moves only up its own chain, and no block    *)
(* enters the index beside it.                                              *)
THEOREM AlwaysFenced == CheckpointSpec => SyncCheckpointFences
<1>1. CInv /\ [CheckpointNext]_allVars =>
        [/\ hashSyncCheckpoint \in Chain[hashSyncCheckpoint']
         /\ pc # "down" =>
               \A b \in mapBlockIndex' \ mapBlockIndex : hashSyncCheckpoint \in Chain[b]]_allVars
  BY CheckpointStep DEF Fenced
<1> QED
  BY <1>1, CheckpointInvariant, PTL DEF CheckpointSpec, SyncCheckpointFences

-----------------------------------------------------------------------------
(* The best chain, beside the checkpoints.                                  *)

(* What the three have in common is that a tip which a checkpoint has       *)
(* connected stands beside a chain with an invalid block that an activation *)
(* has left half-way: that takes all of them, an invalid block, a broadcast *)
(* and a read or write that failed.                                         *)
Untangled == Bad = {} \/ Broadcast = {} \/ MaxDiskErrors = 0

(* Between activations chainMostWork has been reached, or is a clean chain  *)
(* beside the tip that the gate has refused.                                *)
AtRest ==
    diskErrors = 0 /\ pc \in {"return", "orphans", "idle"} /\ chainMostWork # NoBlock =>
        \/ chainMostWork \in Chain[chainActive]
        \/ Clean(chainMostWork) /\ chainActive \notin Chain[chainMostWork]

BestInv == BInv /\ AtRest

(* A step that leaves chains and flags alone, outside of ActivateBestChain. *)
LEMMA AtRestFrame ==
    ASSUME AtRest, UNCHANGED <<chainActive, chainMostWork, failed>>,
           diskErrors' = 0 => diskErrors = 0,
           pc' \in {"return", "orphans", "idle"} => pc \in {"return", "orphans", "idle"}
    PROVE  AtRest'
BY DEF AtRest, Clean

LEMMA AtRestStep ==
    ASSUME IInv, BInv, AtRest, [Next]_vars
    PROVE  AtRest'
<1>0. diskErrors \in Nat /\ chainActive \in Blocks
  BY ParameterAssumption DEF IInv, TypeOK, BoundTypeOK, ChainTypeOK
<1>1. CASE pc' \notin {"return", "orphans", "idle"}
  BY <1>1 DEF AtRest
<1>2. CASE ReorgGate /\ pc' = "return"
  <2>1. /\ chainMostWork # NoBlock /\ ReorgRefused
        /\ UNCHANGED <<chainActive, chainMostWork, failed>>
    BY <1>2 DEF ReorgGate, BInv, BestSoFar, chainVars, statusVars
  <2>2. chainMostWork \in Blocks
    BY <2>1 DEF IInv, TypeOK, ChainTypeOK
  <2>3. chainActive \notin Chain[chainMostWork]
    <3>1. SUFFICES ASSUME chainActive \in Chain[chainMostWork] PROVE FALSE
      OBVIOUS
    <3> DEFINE f == Fork(chainActive, chainMostWork)
    <3>2. Height[chainActive] <= Height[f] /\ f \in Blocks
      BY <1>0, <2>2, <3>1, ForkFacts, ChainFacts
    <3>3. Height[chainActive] - Height[f] > MaxReorgDepth
      BY <2>1 DEF ReorgRefused, ReorgDepth
    <3>4. Height[chainActive] \in Nat /\ Height[f] \in Nat /\ MaxReorgDepth \in Nat
      BY <1>0, <3>2, TreeAssumption, ParameterAssumption
    <3> QED
      BY <3>2, <3>3, <3>4
  <2> QED
    BY <2>1, <2>3 DEF AtRest, Clean, BInv, PathKept
<1>3. CASE diskErrors' # 0
  BY <1>3 DEF AtRest
<1>4. CASE ActivationComplete
  BY <1>0, <1>4, ChainFacts DEF ActivationComplete, AtRest, chainVars
<1>5. CASE Return \/ NextInWorkQueue \/ UNCHANGED vars
  BY <1>5, AtRestFrame
     DEF Return, NextInWorkQueue, vars, chainVars, statusVars, boundVars
<1>6. ASSUME NEW b \in Blocks, ReceiveOrphan(b) \/ RefuseOrphan(b) PROVE AtRest'
  BY <1>6, AtRestFrame DEF ReceiveOrphan, RefuseOrphan, chainVars, statusVars, boundVars
<1>7. ASSUME DisconnectTip \/ ReadBlockFails \/ \E b \in Blocks : ConnectTip(b)
      PROVE  pc' \notin {"return", "orphans", "idle"} \/ diskErrors' # 0
  BY <1>0, <1>7 DEF DisconnectTip, ReadBlockFails, ConnectTip, WriteChainState
<1> QED
  BY <1>1, <1>2, <1>3, <1>4, <1>5, <1>6, <1>7
     DEF Next, Step, ReceiveBlock, AcceptOrphan, AddToBlockIndex, FindMostWorkChain,
         ReorgGate, InvalidBlockFound, AssertFails, Shutdown, Crash, LoadBlockIndexDB

(* A block that extends the tip and breaks no rule is better than it.       *)
LEMMA ExtensionBetter ==
    ASSUME IInv, NEW b \in Blocks \ {Genesis}, b \notin Bad, Parent[b] = chainActive
    PROVE  Clean(b) /\ Worse(chainActive, b)
<1>1. Chain[b] = Chain[chainActive] \cup {b} /\ Work[b] > Work[chainActive]
  BY TreeAssumption
<1>2. Chain[b] \cap Bad = {}
  BY <1>1 DEF IInv, TipsValidated, Validated
<1>3. \A f \in Chain[b] : Chain[f] \subseteq Chain[b]
  BY ChainFacts
<1>4. Clean(b)
  BY <1>2, <1>3 DEF Clean, IInv, FailedIsJustified
<1>5. Work[b] \in Nat /\ Work[chainActive] \in Nat
  BY TreeAssumption DEF IInv, TypeOK, ChainTypeOK
<1> QED
  BY <1>1, <1>4, <1>5 DEF Worse

(* What a block connected for a checkpoint and its parent have in common.   *)
LEMMA CheckpointChild ==
    ASSUME IInv, NEW b \in mapBlockIndex, ~IsInMainChain(b), Parent[b] = chainActive
    PROVE  /\ b \in Blocks \ {Genesis} /\ chainActive \in Blocks
           /\ Chain[b] = Chain[chainActive] \cup {b}
           /\ \A c \in Blocks : b \in Chain[c] => chainActive \in Chain[c]
<1>1. b \in Blocks \ {Genesis} /\ chainActive \in Blocks
  BY ChainFacts DEF IInv, TipsValidated, Validated, TypeOK, ChainTypeOK, IndexTypeOK, IsInMainChain
<1>2. Chain[b] = Chain[chainActive] \cup {b} /\ chainActive \in Chain[chainActive]
  BY <1>1, TreeAssumption, ChainFacts
<1> QED
  BY <1>1, <1>2, ChainFacts

(* After a success no checkpoint connects a block by itself: it would have  *)
(* been the better tip.                                                     *)
LEMMA ConnectsAfterFailure ==
    ASSUME IInv, BInv, pc \in {"idle", "return"},
           NEW b \in mapBlockIndex, ~IsInMainChain(b), CheckpointConnected(b)
    PROVE  ~ret /\ Clean(b) /\ Worse(chainActive, b)
<1>1. Parent[b] = chainActive /\ b \notin Bad
  BY DEF CheckpointConnected
<1>2. Clean(b) /\ Worse(chainActive, b)
  BY <1>1, CheckpointChild, ExtensionBetter
<1> QED
  BY <1>2 DEF BInv, BestAtRest

LEMMA ConnectedKeepsBest ==
    ASSUME IInv, BestInv, Untangled, Broadcast # {}, pc \in {"idle", "return"}, UNCHANGED pc,
           NEW b \in mapBlockIndex, ~IsInMainChain(b), CheckpointConnected(b)
    PROVE  BestInv'
<1> DEFINE c == chainMostWork
<1>1. /\ Parent[b] = chainActive /\ coinsBest' = b /\ ret' = ret
      /\ UNCHANGED <<mapBlockIndex, nSequenceId, addr, failed, chainMostWork>>
      /\ \/ chainActive' = b /\ diskErrors' = diskErrors
         \/ /\ chainActive' = chainActive
            /\ diskErrors < MaxDiskErrors /\ diskErrors' = diskErrors + 1
  BY DEF CheckpointConnected, indexVars, callVars
<1>2. b \in Blocks /\ Chain[b] = Chain[chainActive] \cup {b}
      /\ (c # NoBlock /\ b \in Chain[c] => chainActive \in Chain[c])
  BY <1>1, CheckpointChild DEF IInv, TypeOK, ChainTypeOK
<1>3. ~ret /\ Clean(b) /\ Worse(chainActive, b)
  BY ConnectsAfterFailure DEF BestInv
<1>4. c # NoBlock => Clean(c)
  <2>1. CASE Bad = {}
    BY <2>1 DEF IInv, FailedIsJustified, Clean
  <2>2. CASE MaxDiskErrors = 0
    <3>1. diskErrors = 0
      BY <2>2 DEF IInv, TypeOK, BoundTypeOK
    <3> QED
      BY <3>1, TipClean, ChainFacts DEF BestInv, AtRest, Clean
  <2> QED
    BY <2>1, <2>2 DEF Untangled
<1>5. PathKept'
  BY <1>1, <1>4 DEF PathKept, Clean
<1>6. OffTip'
  BY <1>1, <1>3 DEF OffTip, Clean, Worse
<1>7. BestSoFar' /\ BestAtRest'
  BY <1>1, <1>3 DEF BestSoFar, BestAtRest
<1>8. AtRest'
  <2>1. CASE chainActive' = b /\ diskErrors' = diskErrors
    BY <1>1, <1>2, <2>1 DEF BestInv, AtRest, Clean
  <2>2. CASE diskErrors < MaxDiskErrors /\ diskErrors' = diskErrors + 1
    BY <2>2, ParameterAssumption DEF AtRest, IInv, TypeOK, BoundTypeOK
  <2> QED
    BY <1>1, <2>1, <2>2
<1> QED
  BY <1>5, <1>6, <1>7, <1>8 DEF BestInv, BInv

LEMMA NotConnectedKeepsBest ==
    ASSUME IInv, BestInv, pc \in {"idle", "return"}, UNCHANGED pc,
           NEW b \in mapBlockIndex, ~IsInMainChain(b), CheckpointNotConnected(b)
    PROVE  BestInv'
<1> DEFINE c == chainMostWork
<1>1. /\ UNCHANGED <<indexVars, chainVars, ret>>
      /\ \/ failed' = failed
         \/ /\ Parent[b] = chainActive /\ coinsBest = chainActive
            /\ failed' = failed \cup {b} /\ diskErrors' = diskErrors
      /\ diskErrors' = diskErrors \/ (diskErrors < MaxDiskErrors /\ diskErrors' = diskErrors + 1)
  BY DEF CheckpointNotConnected, CorruptionPossible, statusVars, callVars
<1>2. CASE failed' = failed
  <2>1. BInv'
    BY <1>1, <1>2, BestFrame DEF BestInv, BInv, Alive
  <2>2. diskErrors' = 0 => diskErrors = 0
    BY <1>1, ParameterAssumption DEF IInv, TypeOK, BoundTypeOK
  <2>3. AtRest'
    BY <1>1, <1>2, <2>2, AtRestFrame DEF BestInv, chainVars
  <2> QED
    BY <2>1, <2>3 DEF BestInv
<1>3. CASE /\ Parent[b] = chainActive /\ coinsBest = chainActive
           /\ failed' = failed \cup {b} /\ diskErrors' = diskErrors
  <2>1. /\ c # NoBlock => (b \in Chain[c] => chainActive \in Chain[c])
        /\ b \notin Chain[chainActive]
    <3>1. b \in Blocks \ {Genesis} /\ chainActive \in Blocks
          /\ \A d \in Blocks : b \in Chain[d] => chainActive \in Chain[d]
      BY <1>3, CheckpointChild
    <3>2. Height[b] = Height[chainActive] + 1 /\ Height[chainActive] \in Nat
      BY <1>3, <3>1, TreeAssumption
    <3>3. b \notin Chain[chainActive]
      <4>1. b \in Chain[chainActive] => Height[b] <= Height[chainActive]
        BY <3>1, Ancestors
      <4> QED
        BY <3>2, <4>1
    <3> QED
      BY <3>1, <3>3 DEF IInv, TypeOK, ChainTypeOK
  <2>2. UNCHANGED <<mapBlockIndex, nSequenceId, addr, chainActive, chainMostWork, coinsBest>>
    BY <1>1 DEF indexVars, chainVars
  <2>3. PathKept'
    BY <1>3, <2>1, <2>2 DEF BestInv, BInv, PathKept, Clean
  <2>4. BestSoFar' /\ OffTip'
    BY <1>3, <2>2 DEF BestSoFar, OffTip
  <2>5. BestAtRest'
    BY <1>1, <1>3, <2>2 DEF BestInv, BInv, BestAtRest, Clean, Worse
  <2>6. AtRest'
    <3>1. CASE c \in Chain[chainActive]
      BY <2>2, <3>1 DEF AtRest
    <3>2. CASE Clean(c) /\ chainActive \notin Chain[c]
      BY <1>3, <2>1, <2>2, <3>2 DEF AtRest, Clean
    <3> QED
      BY <1>3, <2>2, <3>1, <3>2 DEF BestInv, AtRest
  <2> QED
    BY <2>3, <2>4, <2>5, <2>6 DEF BestInv, BInv
<1> QED
  BY <1>1, <1>2, <1>3

(* The steps of CheckpointNext that are steps of Next, and the others.      *)
LEMMA CheckpointSteps ==
    ASSUME [CheckpointNext]_allVars, CInv
    PROVE  \/ [Next]_vars
           \/ \E b \in Blocks : CheckpointRefusesOrphan(b)
           \/ \E b \in Blocks : AssertsExtension(b)
           \/ \E b \in mapBlockIndex :
                 /\ Broadcast # {} /\ ~IsInMainChain(b) /\ pc \in {"idle", "return"} /\ UNCHANGED pc
                 /\ (CheckpointNotConnected(b) \/ CheckpointConnected(b))
<1>1. ASSUME NEW b \in Blocks, ProcessSyncCheckpoint(b)
      PROVE  \/ UNCHANGED vars
             \/ AssertsExtension(b)
             \/ /\ b \in mapBlockIndex /\ Broadcast # {} /\ ~IsInMainChain(b) /\ pc = "idle"
                /\ UNCHANGED pc /\ (CheckpointNotConnected(b) \/ CheckpointConnected(b))
  BY <1>1 DEF ProcessSyncCheckpoint, AcceptSyncCheckpoint
<1>2. ASSUME AcceptPendingSyncCheckpoint
      PROVE  LET b == hashPendingCheckpoint IN
             /\ b \in mapBlockIndex /\ b \in Blocks
             /\ \/ UNCHANGED vars
                \/ AssertsExtension(b)
                \/ /\ Broadcast # {} /\ ~IsInMainChain(b) /\ pc = "return"
                   /\ UNCHANGED pc /\ (CheckpointNotConnected(b) \/ CheckpointConnected(b))
  <2>1. hashPendingCheckpoint \in mapBlockIndex /\ pc = "return"
    BY <1>2 DEF AcceptPendingSyncCheckpoint, PendingWanted
  <2>2. hashPendingCheckpoint \in Blocks /\ Broadcast # {}
    <3>1. mapBlockIndex \subseteq Blocks
      BY DEF CInv, IInv, TypeOK, IndexTypeOK
    <3> QED
      BY <2>1, <3>1, TreeAssumption DEF CInv, SyncIndexed
  <2> QED
    BY <1>2, <2>1, <2>2 DEF AcceptPendingSyncCheckpoint, AcceptSyncCheckpoint
<1>3. CASE Unchecked
  BY <1>3 DEF Unchecked, Next, Step
<1>4. CASE UNCHANGED allVars
  BY <1>4 DEF allVars
<1>5. ASSUME NEW b \in Blocks,
             (CheckedReceiveBlock(b) /\ b # Genesis) \/ CheckedAcceptOrphan(b) \/ CheckedConnectTip(b)
      PROVE  Next
  BY <1>5 DEF CheckedReceiveBlock, CheckedAcceptOrphan, CheckedConnectTip, Next, Step
<1>6. CASE CheckedDisconnectTip \/ CheckedReturn \/ CheckedLoad
  BY <1>6 DEF CheckedDisconnectTip, CheckedReturn, CheckedLoad, Next, Step
<1>7. ASSUME NEW h \in DOMAIN mapCheckpointsRolling, ClearRollingCheckpointsBelow(h + 1)
      PROVE  UNCHANGED vars
  BY <1>7 DEF ClearRollingCheckpointsBelow
<1> QED
  BY <1>1, <1>2, <1>3, <1>4, <1>5, <1>6, <1>7 DEF CheckpointNext

LEMMA BestInvStep ==
    ASSUME Untangled, CInv, BestInv, [CheckpointNext]_allVars
    PROVE  BestInv'
<1>0. IInv
  BY DEF CInv
<1>1. CASE [Next]_vars
  BY <1>0, <1>1, BInvStep, AtRestStep DEF BestInv
<1>2. ASSUME NEW b \in Blocks, CheckpointRefusesOrphan(b) PROVE BestInv'
  <2>1. UNCHANGED <<indexVars, failed, chainVars, chainActive, chainMostWork, pc, ret, diskErrors>>
    BY <1>2 DEF CheckpointRefusesOrphan, statusVars, chainVars, boundVars
  <2> QED
    BY <2>1, BestFrame, AtRestFrame DEF BestInv, BInv, Alive
<1>3. ASSUME NEW b \in Blocks, AssertsExtension(b) PROVE BestInv'
  <2>1. UNCHANGED <<indexVars, failed, chainVars, ret>> /\ pc' = "aborted"
    BY <1>3 DEF AssertsExtension, statusVars, callVars
  <2>2. AtRest'
    BY <2>1 DEF AtRest
  <2> QED
    BY <2>1, <2>2, BestFrame DEF BestInv, BInv, Alive
<1> QED
  BY <1>0, <1>1, <1>2, <1>3, CheckpointSteps, ConnectedKeepsBest, NotConnectedKeepsBest

(* The invariant of the best chain holds beside checkpoints.                *)
THEOREM BestBesideCheckpoints ==
    ASSUME Untangled
    PROVE  CheckpointSpec => []BestInv
<1>1. CheckpointInit => BestInv
  <2>1. ASSUME Init PROVE AtRest
    BY <2>1, ChainFacts, TreeAssumption DEF Init, AtRest
  <2> QED
    BY <2>1, BInvInit DEF CheckpointInit, BestInv
<1>2. CInv /\ BestInv /\ [CheckpointNext]_allVars => BestInv'
  BY BestInvStep
<1> QED
  BY <1>1, <1>2, CheckpointInvariant, PTL DEF CheckpointSpec

(* No call reports success over a coins view away from the tip, whatever    *)
(* block a checkpoint has connected by itself.                              *)
THEOREM SuccessOnTipWithCheckpoints ==
    ASSUME Untangled
    PROVE  CheckpointSpec => []SuccessMeansViewOnTip
<1>1. BestInv => SuccessMeansViewOnTip
  BY DEF BestInv, BInv, OffTip, SuccessMeansViewOnTip
<1> QED
  BY <1>1, BestBesideCheckpoints, PTL

-----------------------------------------------------------------------------
(* The rolling checkpoints: what is ROLLING_DEPTH below a block that has    *)
(* been connected is below every place a tip can be left at, however often  *)
(* an activation is cut short and measured anew.                            *)

Interruptions == MaxRestarts + MaxDiskErrors + Cardinality(Bad)

(* With n the blocks by which a chain may be lower than one of less work:   *)
(* the gate is in force where the checkpoints are, and ROLLING_DEPTH has    *)
(* room for a reorganisation as deep as it allows and for as many more as   *)
(* there can be interruptions.                                              *)
Enough(n) ==
    /\ ~InitialDownload
    /\ LWMA3ForkHeight <= RollingActivation
    /\ \A a, b \in Blocks :
          Height[b] >= RollingActivation + ROLLING_DEPTH /\ Work[a] >= Work[b]
          => Height[b] <= Height[a] + n
    /\ IsFiniteSet(Bad) /\ MaxReorgDepth >= 1
    /\ n + MaxReorgDepth * (1 + Interruptions) <= ROLLING_DEPTH

Slack == CHOOSE n \in Nat : Enough(n)

Roomy == \E n \in Nat : Enough(n)

(* How far below the highest block connected k interruptions can leave a    *)
(* tip.                                                                     *)
Budget(k) == Slack + MaxReorgDepth * k

(* A block x no more than that below every block of S high enough to lock   *)
(* anything in.                                                             *)
Near(S, x, k) ==
    \A v \in S : Height[v] >= RollingActivation + ROLLING_DEPTH => Height[v] <= Height[x] + Budget(k)

LEMMA RoomFacts ==
    ASSUME Roomy
    PROVE  Slack \in Nat /\ Enough(Slack)
BY DEF Roomy, Slack

LEMMA BudgetFacts ==
    ASSUME Roomy
    PROVE  /\ \A k \in Nat : Budget(k) \in Nat /\ Slack <= Budget(k)
           /\ \A k \in Nat : Budget(k + 1) = Budget(k) + MaxReorgDepth
           /\ MaxReorgDepth \in Nat /\ MaxReorgDepth >= 1 /\ ROLLING_DEPTH \in Nat
<1>1. Slack \in Nat /\ MaxReorgDepth \in Nat /\ MaxReorgDepth >= 1
  BY RoomFacts, ParameterAssumption DEF Enough
<1>2. \A k \in Nat : MaxReorgDepth * k \in Nat
  BY <1>1
<1>3. \A k \in Nat : MaxReorgDepth * (k + 1) = MaxReorgDepth * k + MaxReorgDepth
  BY <1>1
<1> QED
  BY <1>1, <1>2, <1>3, CheckpointAssumption DEF Budget

LEMMA BudgetRises ==
    ASSUME Roomy, NEW k \in Nat, NEW m \in Nat, k <= m
    PROVE  Budget(k) <= Budget(m)
<1>1. Slack \in Nat /\ MaxReorgDepth \in Nat
  BY BudgetFacts, RoomFacts
<1>2. PICK d \in Nat : m = k + d
  <2>1. m - k \in Nat /\ m = k + (m - k)
    OBVIOUS
  <2> QED
    BY <2>1
<1>3. MaxReorgDepth * (k + d) = MaxReorgDepth * k + MaxReorgDepth * d
  BY <1>1
<1>4. MaxReorgDepth * d \in Nat /\ MaxReorgDepth * k \in Nat
  BY <1>1
<1> QED
  BY <1>1, <1>2, <1>3, <1>4 DEF Budget

(* Higher up, or after more interruptions.                                  *)
LEMMA NearUp ==
    ASSUME Roomy, NEW S \in SUBSET Blocks, NEW x \in Blocks, NEW y \in Blocks,
           NEW k \in Nat, NEW m \in Nat, k <= m, Height[x] <= Height[y], Near(S, x, k)
    PROVE  Near(S, y, m)
<1>1. Budget(k) <= Budget(m) /\ Budget(k) \in Nat /\ Budget(m) \in Nat
  BY BudgetRises, BudgetFacts
<1>2. Height[x] \in Nat /\ Height[y] \in Nat
  BY TreeAssumption
<1>3. \A v \in S : Height[v] \in Nat
  BY TreeAssumption
<1> QED
  BY <1>1, <1>2, <1>3 DEF Near

(* One block more, which is the tip itself or its child.                    *)
LEMMA NearAdd ==
    ASSUME Roomy, NEW S \in SUBSET Blocks, NEW x \in Blocks, NEW b \in Blocks, NEW k \in Nat,
           Near(S, x, k), Height[b] <= Height[x] \/ (Height[b] = Height[x] + 1 /\ k > 0)
    PROVE  Near(S \cup {b}, x, k)
<1>1. Height[x] \in Nat /\ Height[b] \in Nat /\ Budget(k) \in Nat
  BY TreeAssumption, BudgetFacts
<1>2. k > 0 => Budget(k) >= 1
  <2>1. SUFFICES ASSUME k > 0 PROVE Budget(k) >= 1
    OBVIOUS
  <2>2. k - 1 \in Nat /\ k = (k - 1) + 1
    BY <2>1
  <2>3. Budget((k - 1) + 1) = Budget(k - 1) + MaxReorgDepth /\ Budget(k - 1) \in Nat
        /\ MaxReorgDepth \in Nat /\ MaxReorgDepth >= 1
    BY <2>2, BudgetFacts
  <2>4. Budget(k) = Budget(k - 1) + MaxReorgDepth
    BY <2>2, <2>3
  <2> QED
    BY <2>3, <2>4
<1>3. Height[b] <= Height[x] + Budget(k)
  BY <1>1, <1>2
<1> QED
  BY <1>3 DEF Near

(* A record of the map: a block ROLLING_DEPTH below one that has been       *)
(* connected.                                                               *)
LockedIn(S, map) ==
    \A h \in DOMAIN map :
        /\ h \in Nat /\ h >= RollingActivation
        /\ map[h] \in Blocks /\ Height[map[h]] = h
        /\ \E v \in S : Height[v] >= h + ROLLING_DEPTH

OnChain(map, x) == \A h \in DOMAIN map : map[h] \in Chain[x]

(* What is locked in lies below a block that is near enough.                *)
LEMMA LockedBelow ==
    ASSUME Roomy, NEW S \in SUBSET Blocks, NEW map, LockedIn(S, map),
           NEW y \in Blocks, NEW x \in Chain[y], OnChain(map, y),
           NEW k \in Nat, Near(S, x, k), Budget(k) <= ROLLING_DEPTH
    PROVE  OnChain(map, x)
<1> SUFFICES ASSUME NEW h \in DOMAIN map PROVE map[h] \in Chain[x]
  BY DEF OnChain
<1>1. /\ h \in Nat /\ h >= RollingActivation /\ map[h] \in Chain[y] /\ Height[map[h]] = h
      /\ \E v \in S : Height[v] >= h + ROLLING_DEPTH
  BY DEF LockedIn, OnChain
<1>2. PICK v \in S : Height[v] >= h + ROLLING_DEPTH
  BY <1>1
<1>3. /\ x \in Blocks /\ Height[x] \in Nat /\ Height[v] \in Nat
      /\ RollingActivation \in Nat /\ ROLLING_DEPTH \in Nat /\ Budget(k) \in Nat
  BY ChainFacts, TreeAssumption, CheckpointAssumption, BudgetFacts
<1>4. Height[v] >= RollingActivation + ROLLING_DEPTH
  BY <1>1, <1>2, <1>3
<1>5. Height[v] <= Height[x] + Budget(k)
  BY <1>4 DEF Near
<1>6. h <= Height[x]
  BY <1>1, <1>2, <1>3, <1>5
<1> QED
  BY <1>1, <1>6, Ancestors

LEMMA OnChainUp ==
    ASSUME NEW map, NEW x, NEW y, OnChain(map, x), Chain[x] \subseteq Chain[y]
    PROVE  OnChain(map, y)
BY DEF OnChain

(* Records are dropped, and more blocks are connected.                      *)
LEMMA LockedFewer ==
    ASSUME NEW S, NEW T, S \subseteq T, NEW map, NEW less, DOMAIN less \subseteq DOMAIN map,
           \A h \in DOMAIN less : less[h] = map[h], NEW x
    PROVE  /\ LockedIn(S, map) => LockedIn(T, less)
           /\ OnChain(map, x) => OnChain(less, x)
BY DEF LockedIn, OnChain

(* The record MaybeRollForward adds.                                        *)
LEMMA LockedWith ==
    ASSUME NEW S \in SUBSET Blocks, NEW map, LockedIn(S, map), NEW x \in Blocks, OnChain(map, x),
           NEW b \in Blocks, Chain[b] = Chain[x] \cup {b},
           NEW a \in Chain[b], Height[a] = Height[b] - ROLLING_DEPTH,
           Height[a] >= RollingActivation
    PROVE  LockedIn(S \cup {b}, With(map, a)) /\ OnChain(With(map, a), b)
<1>1. a \in Blocks /\ Height[a] \in Nat /\ Height[b] \in Nat /\ ROLLING_DEPTH \in Nat
  BY ChainFacts, TreeAssumption, CheckpointAssumption
<1>2. Height[b] >= Height[a] + ROLLING_DEPTH
  BY <1>1
<1>3. /\ DOMAIN With(map, a) = DOMAIN map \cup {Height[a]}
      /\ \A h \in DOMAIN map : With(map, a)[h] = map[h]
      /\ \A h \in DOMAIN With(map, a) :
            h \in DOMAIN map \/ (h = Height[a] /\ With(map, a)[h] = a)
  BY DEF With
<1>4. OnChain(With(map, a), b)
  BY <1>3 DEF OnChain
<1>5. LockedIn(S \cup {b}, With(map, a))
  BY <1>1, <1>2, <1>3 DEF LockedIn
<1> QED
  BY <1>4, <1>5

LEMMA LockedRollForward ==
    ASSUME NEW S \in SUBSET Blocks, NEW x \in Blocks, NEW b \in Blocks,
           Chain[b] = Chain[x] \cup {b}, MaybeRollForward(b),
           \A map \in {mapCheckpointsRolling, rollingFile} : LockedIn(S, map) /\ OnChain(map, x)
    PROVE  \A map \in {mapCheckpointsRolling', rollingFile'} :
               LockedIn(S \cup {b}, map) /\ OnChain(map, b)
<1>1. CASE UNCHANGED rollingVars
  <2>1. UNCHANGED <<mapCheckpointsRolling, rollingFile>>
    BY <1>1 DEF rollingVars
  <2>2. ASSUME NEW map, LockedIn(S, map) /\ OnChain(map, x)
        PROVE  LockedIn(S \cup {b}, map) /\ OnChain(map, b)
    BY <2>2 DEF LockedIn, OnChain
  <2> QED
    BY <2>1, <2>2
<1>2. CASE /\ ~(Height[b] - ROLLING_DEPTH < RollingActivation)
           /\ \E a \in {c \in Chain[b] : Height[c] = Height[b] - ROLLING_DEPTH} :
                 /\ mapCheckpointsRolling' = Collected(With(mapCheckpointsRolling, a))
                 /\ rollingFile' = With(rollingFile, a)
  <2>1. PICK a \in Chain[b] :
           /\ Height[a] = Height[b] - ROLLING_DEPTH
           /\ mapCheckpointsRolling' = Collected(With(mapCheckpointsRolling, a))
           /\ rollingFile' = With(rollingFile, a)
    BY <1>2
  <2>2. Height[a] >= RollingActivation
    <3>1. Height[b] \in Nat /\ ROLLING_DEPTH \in Nat /\ RollingActivation \in Nat
      BY TreeAssumption, CheckpointAssumption
    <3> QED
      BY <1>2, <2>1, <3>1
  <2>3. ASSUME NEW map \in {mapCheckpointsRolling, rollingFile}
        PROVE  LockedIn(S \cup {b}, With(map, a)) /\ OnChain(With(map, a), b)
    BY <2>1, <2>2, LockedWith
  <2>4. ASSUME NEW map
        PROVE  /\ LockedIn(S \cup {b}, map) => LockedIn(S \cup {b}, Collected(map))
               /\ OnChain(map, b) => OnChain(Collected(map), b)
    <3>1. DOMAIN Collected(map) \subseteq DOMAIN map
          /\ \A h \in DOMAIN Collected(map) : Collected(map)[h] = map[h]
      BY DEF Collected, Highest
    <3> QED
      BY <3>1, LockedFewer
  <2> QED
    BY <2>1, <2>3, <2>4
<1> QED
  BY <1>1, <1>2 DEF MaybeRollForward

-----------------------------------------------------------------------------
(* The interruptions so far: deaths, failures of the disk, and invalid      *)
(* blocks found, each of which the block tree database remembers.           *)
Cuts == restarts + diskErrors + Cardinality(dbFailed \cap Bad)

(* What is locked in lies below the coins database's best block and, while  *)
(* the process runs, below the tip and the view.                            *)
Locks ==
    \A map \in {mapCheckpointsRolling, rollingFile} :
        /\ LockedIn(scripts, map) /\ OnChain(map, dbCoins)
        /\ pc # "down" => OnChain(map, coinsBest) /\ OnChain(map, chainActive)

Follows == pc # "down" => dbCoins = chainActive /\ dbFailed \subseteq failed

ScriptsValid == \A v \in scripts : v \in mapBlockIndex /\ Chain[v] \cap Bad = {}

RestNear ==
    pc \in {"idle", "orphans", "return", "exited", "down"} => Near(scripts, dbCoins, Cuts)

AbortedNear == pc = "aborted" => Near(scripts, dbCoins, Cuts + 1)

(* An activation that starts over on account of a damaged copy goes on to   *)
(* the chain it was at.                                                     *)
EntryNear ==
    pc \in {"find", "gate"} =>
        \/ Near(scripts, chainActive, Cuts)
        \/ Preferred /\ chainActive \in Chain[chainMostWork] /\ Near(scripts, chainActive, Cuts + 1)

(* In the middle of a reorganisation the fork is near, and an interruption  *)
(* has yet to be counted; an invalid block that was found has been.         *)
LoopNear ==
    pc = "step" =>
        IF Clean(chainMostWork)
        THEN \E f \in Chain[chainMostWork] \cap Chain[chainActive] : Near(scripts, f, Cuts + 1)
        ELSE Near(scripts, chainActive, Cuts)

ViewNear == pc # "down" /\ coinsBest # chainActive => Near(scripts, coinsBest, Cuts)

Reach == RestNear /\ AbortedNear /\ EntryNear /\ LoopNear /\ ViewNear

RollInv == Locks /\ Follows /\ ScriptsValid /\ Reach

LEMMA CutsFacts ==
    ASSUME Roomy, TypeOK
    PROVE  Cuts \in Nat /\ Budget(Cuts) <= ROLLING_DEPTH /\ Budget(Cuts + 1) <= ROLLING_DEPTH
<1> DEFINE F == dbFailed \cap Bad
<1>1. IsFiniteSet(Bad)
  BY RoomFacts DEF Enough
<1>2. /\ Cardinality(Bad) \in Nat /\ Cardinality(F) \in Nat
      /\ Cardinality(F) <= Cardinality(Bad)
  BY <1>1, FS_Subset, FS_CardinalityType
<1>3. /\ restarts \in Nat /\ diskErrors \in Nat /\ MaxRestarts \in Nat /\ MaxDiskErrors \in Nat
      /\ restarts <= MaxRestarts /\ diskErrors <= MaxDiskErrors
  BY ParameterAssumption DEF TypeOK, BoundTypeOK
<1>4. Cuts \in Nat /\ Interruptions \in Nat /\ Cuts <= Interruptions
  BY <1>2, <1>3 DEF Cuts, Interruptions
<1>5. Budget(1 + Interruptions) <= ROLLING_DEPTH
  BY RoomFacts DEF Enough, Budget
<1>6. /\ Budget(Cuts) <= Budget(1 + Interruptions)
      /\ Budget(Cuts + 1) <= Budget(1 + Interruptions)
  BY <1>4, BudgetRises
<1>7. /\ Budget(Cuts) \in Nat /\ Budget(Cuts + 1) \in Nat /\ Budget(1 + Interruptions) \in Nat
      /\ ROLLING_DEPTH \in Nat
  BY <1>4, BudgetFacts
<1> QED
  BY <1>4, <1>5, <1>6, <1>7

(* Wherever an activation stands, cutting it short costs one interruption.  *)
LEMMA NearAnyTime ==
    ASSUME Roomy, IInv, RollInv, pc # "down"
    PROVE  dbCoins = chainActive /\ Near(scripts, chainActive, Cuts + 1)
<1>1. Cuts \in Nat /\ scripts \in SUBSET Blocks /\ chainActive \in Blocks /\ dbCoins = chainActive
  BY CutsFacts DEF IInv, TypeOK, StatusTypeOK, ChainTypeOK, RollInv, Follows
<1>2. Near(scripts, chainActive, Cuts) => Near(scripts, chainActive, Cuts + 1)
  <2>1. Cuts + 1 \in Nat /\ Cuts <= Cuts + 1 /\ Height[chainActive] <= Height[chainActive]
    BY <1>1, TreeAssumption
  <2> QED
    BY <1>1, <2>1, NearUp
<1>3. ASSUME NEW f \in Chain[chainActive], Near(scripts, f, Cuts + 1)
      PROVE  Near(scripts, chainActive, Cuts + 1)
  <2>1. f \in Blocks /\ Height[f] <= Height[chainActive] /\ Cuts + 1 \in Nat /\ Cuts + 1 <= Cuts + 1
    BY <1>1, ChainFacts, Ancestors
  <2> QED
    BY <1>1, <1>3, <2>1, NearUp
<1> QED
  BY <1>1, <1>2, <1>3
     DEF RollInv, Reach, RestNear, AbortedNear, EntryNear, LoopNear, IInv, TypeOK, PcTypeOK

-----------------------------------------------------------------------------
(* The steps that move no tip, and find nothing new.                        *)

LEMMA RollFrame ==
    ASSUME RollInv, pc # "down", pc' # "down",
           UNCHANGED <<scripts, chainActive, coinsBest, dbCoins, rollingVars>>,
           mapBlockIndex \subseteq mapBlockIndex', dbFailed' \subseteq failed'
    PROVE  Locks' /\ Follows' /\ ScriptsValid'
<1>1. UNCHANGED <<mapCheckpointsRolling, rollingFile>>
  BY DEF rollingVars
<1>2. Locks'
  BY <1>1 DEF RollInv, Locks, LockedIn, OnChain
<1> QED
  BY <1>2 DEF RollInv, Follows, ScriptsValid

LEMMA CutsFrame ==
    ASSUME UNCHANGED <<dbFailed, restarts, diskErrors>>
    PROVE  Cuts' = Cuts
BY DEF Cuts

LEMMA RollStill ==
    ASSUME RollInv, pc # "down", pc' # "down",
           UNCHANGED <<scripts, chainActive, coinsBest, dbCoins, dbFailed, rollingVars>>,
           UNCHANGED <<restarts, diskErrors>>,
           mapBlockIndex \subseteq mapBlockIndex', failed \subseteq failed',
           \/ /\ pc \in {"idle", "orphans", "return", "exited"}
              /\ pc' \in {"idle", "orphans", "return", "exited"}
           \/ pc \in {"idle", "orphans"} /\ pc' = "find"
    PROVE  RollInv'
<1>1. Locks' /\ Follows' /\ ScriptsValid'
  BY RollFrame DEF RollInv, Follows
<1>2. Cuts' = Cuts
  BY CutsFrame
<1>3. Near(scripts, chainActive, Cuts) /\ dbCoins = chainActive
  BY DEF RollInv, Reach, RestNear, Follows
<1>4. RestNear' /\ AbortedNear' /\ EntryNear' /\ LoopNear'
  BY <1>2, <1>3 DEF RestNear, AbortedNear, EntryNear, LoopNear, Near
<1>5. ViewNear'
  BY <1>2 DEF RollInv, Reach, ViewNear, Near
<1> QED
  BY <1>1, <1>4, <1>5 DEF RollInv, Reach

LEMMA RollFind ==
    ASSUME Roomy, IInv, RollInv, FindMostWorkChain, UNCHANGED rollingVars
    PROVE  RollInv'
<1>1. /\ pc = "find" /\ pc' = "gate" /\ failed \subseteq failed'
      /\ UNCHANGED <<scripts, chainActive, coinsBest, dbCoins, dbFailed>>
      /\ UNCHANGED <<restarts, diskErrors, mapBlockIndex>>
  BY DEF FindMostWorkChain, dbVars, boundVars, indexVars
<1>2. Locks' /\ Follows' /\ ScriptsValid'
  BY <1>1, RollFrame DEF RollInv, Follows
<1>3. Cuts' = Cuts
  BY <1>1, CutsFrame
<1>4. EntryNear'
  BY <1>1, <1>3, PreferredStays DEF RollInv, Reach, EntryNear, Near
<1>5. RestNear' /\ AbortedNear' /\ LoopNear'
  BY <1>1 DEF RestNear, AbortedNear, LoopNear
<1>6. ViewNear'
  BY <1>1, <1>3 DEF RollInv, Reach, ViewNear, Near
<1> QED
  BY <1>2, <1>4, <1>5, <1>6 DEF RollInv, Reach

(* Past the gate the fork is one reorganisation away.                       *)
LEMMA GateNear ==
    ASSUME Roomy, TypeOK, NEW c \in Blocks, NEW f \in Blocks,
           Height[c] >= LWMA3ForkHeight => ~(Height[c] - Height[f] > MaxReorgDepth),
           NEW S \in SUBSET Blocks, Near(S, c, Cuts)
    PROVE  Near(S, f, Cuts + 1)
<1>1. /\ Cuts \in Nat /\ Height[c] \in Nat /\ Height[f] \in Nat /\ LWMA3ForkHeight \in Nat
      /\ RollingActivation \in Nat /\ LWMA3ForkHeight <= RollingActivation
  BY CutsFacts, RoomFacts, TreeAssumption, ParameterAssumption, CheckpointAssumption DEF Enough
<1>2. /\ Budget(Cuts) \in Nat /\ Budget(Cuts) <= ROLLING_DEPTH /\ MaxReorgDepth \in Nat
      /\ Budget(Cuts + 1) = Budget(Cuts) + MaxReorgDepth /\ ROLLING_DEPTH \in Nat
  BY <1>1, CutsFacts, BudgetFacts
<1>3. ASSUME NEW v \in S, Height[v] >= RollingActivation + ROLLING_DEPTH
      PROVE  Height[v] <= Height[f] + Budget(Cuts + 1)
  <2>1. Height[v] <= Height[c] + Budget(Cuts) /\ Height[v] \in Nat
    BY <1>3, TreeAssumption DEF Near
  <2>2. Height[c] >= LWMA3ForkHeight
    BY <1>1, <1>2, <1>3, <2>1
  <2> QED
    BY <1>1, <1>2, <2>1, <2>2
<1> QED
  BY <1>3 DEF Near

LEMMA RollGate ==
    ASSUME Roomy, IInv, BestInv, RollInv, ReorgGate, UNCHANGED rollingVars
    PROVE  RollInv'
<1> DEFINE f == Fork(chainActive, chainMostWork)
<1>1. /\ pc = "gate" /\ chainMostWork # NoBlock
      /\ UNCHANGED <<scripts, chainActive, chainMostWork, coinsBest, dbCoins, dbFailed, failed>>
      /\ UNCHANGED <<restarts, diskErrors, mapBlockIndex>>
      /\ \/ ReorgRefused /\ pc' = "return"
         \/ ~ReorgRefused /\ pc' = "step"
  BY DEF ReorgGate, chainVars, statusVars, dbVars, boundVars, indexVars, BestInv, BInv, BestSoFar
<1>2. Locks' /\ Follows' /\ ScriptsValid' /\ dbCoins = chainActive
  BY <1>1, RollFrame DEF RollInv, Follows
<1>3. Cuts' = Cuts
  BY <1>1, CutsFrame
<1>4. ViewNear'
  BY <1>1, <1>3 DEF RollInv, Reach, ViewNear, Near
<1>5. /\ chainActive \in Blocks /\ chainMostWork \in Blocks /\ scripts \in SUBSET Blocks
      /\ f \in Chain[chainActive] \cap Chain[chainMostWork] /\ f \in Blocks
      /\ Height[chainActive] \in Nat /\ Height[f] \in Nat /\ MaxReorgDepth \in Nat
  <2>1. chainActive \in Blocks /\ chainMostWork \in Blocks /\ scripts \in SUBSET Blocks
    BY <1>1 DEF IInv, TypeOK, ChainTypeOK, StatusTypeOK
  <2>2. f \in Chain[chainActive] \cap Chain[chainMostWork] /\ f \in Blocks
    BY <2>1, ForkFacts, ChainFacts
  <2> QED
    BY <2>1, <2>2, TreeAssumption, ParameterAssumption
<1>6. chainActive \in Chain[chainMostWork] => ~ReorgRefused
  <2>1. SUFFICES ASSUME chainActive \in Chain[chainMostWork] PROVE ~ReorgRefused
    OBVIOUS
  <2>2. Height[chainActive] <= Height[f]
    BY <1>5, <2>1, ForkFacts, ChainFacts
  <2>3. ~(Height[chainActive] - Height[f] > MaxReorgDepth)
    BY <1>5, <2>2
  <2> QED
    BY <2>3 DEF ReorgRefused, ReorgDepth
<1>7. CASE ReorgRefused /\ pc' = "return"
  <2>1. Near(scripts, dbCoins, Cuts)
    BY <1>1, <1>2, <1>6, <1>7 DEF RollInv, Reach, EntryNear
  <2>2. RestNear' /\ AbortedNear' /\ EntryNear' /\ LoopNear'
    BY <1>1, <1>3, <1>7, <2>1 DEF RestNear, AbortedNear, EntryNear, LoopNear, Near
  <2> QED
    BY <1>2, <1>4, <2>2 DEF RollInv, Reach
<1>8. CASE ~ReorgRefused /\ pc' = "step"
  <2>1. RestNear' /\ AbortedNear' /\ EntryNear'
    BY <1>8 DEF RestNear, AbortedNear, EntryNear
  <2>2. CASE Near(scripts, chainActive, Cuts)
    <3>1. Height[chainActive] >= LWMA3ForkHeight => ~(Height[chainActive] - Height[f] > MaxReorgDepth)
      BY <1>1, <1>8 DEF ReorgRefused, ReorgDepth
    <3>2. Near(scripts, f, Cuts + 1)
      BY <1>5, <2>2, <3>1, GateNear DEF IInv
    <3>3. LoopNear'
      BY <1>1, <1>3, <1>5, <2>2, <3>2 DEF LoopNear, Near, Clean
    <3> QED
      BY <1>2, <1>4, <2>1, <3>3 DEF RollInv, Reach
  <2>3. CASE /\ Preferred /\ chainActive \in Chain[chainMostWork]
             /\ Near(scripts, chainActive, Cuts + 1)
    <3>1. Clean(chainMostWork) /\ chainActive \in Chain[chainMostWork] \cap Chain[chainActive]
      BY <1>5, <2>3, ChainFacts DEF Preferred
    <3>2. LoopNear'
      BY <1>1, <1>3, <2>3, <3>1 DEF LoopNear, Near, Clean
    <3> QED
      BY <1>2, <1>4, <2>1, <3>2 DEF RollInv, Reach
  <2> QED
    BY <1>1, <2>2, <2>3 DEF RollInv, Reach, EntryNear
<1> QED
  BY <1>1, <1>7, <1>8

-----------------------------------------------------------------------------
(* The steps that move the tip, or fail to.                                 *)

LEMMA RollDisconnect ==
    ASSUME Roomy, IInv, BestInv, RollInv, CheckedDisconnectTip
    PROVE  RollInv'
<1> DEFINE p == Parent[chainActive]
<1>1. /\ pc = "step" /\ chainMostWork # NoBlock /\ chainActive \notin Chain[chainMostWork]
      /\ coinsBest' = p /\ UNCHANGED <<scripts, chainMostWork, failed, dbFailed, restarts>>
      /\ UNCHANGED <<mapCheckpointsRolling, rollingFile, mapBlockIndex>>
      /\ \/ chainActive' = p /\ dbCoins' = p /\ pc' = "step" /\ diskErrors' = diskErrors
         \/ /\ UNCHANGED <<chainActive, dbCoins>> /\ pc' = "return"
            /\ diskErrors' = diskErrors + 1
  BY RoomFacts DEF CheckedDisconnectTip, DisconnectTip, Disconnecting, WriteChainState, SavedWithTip,
         Enough, statusVars, checkpointVars, rollingVars, indexVars
<1>2. /\ chainActive \in Blocks \ {Genesis} /\ chainMostWork \in Blocks /\ scripts \in SUBSET Blocks
      /\ p \in Blocks /\ Chain[chainActive] = Chain[p] \cup {chainActive}
      /\ dbCoins = chainActive /\ Cuts \in Nat /\ Cuts + 1 \in Nat
  BY <1>1, ChainFacts, TreeAssumption, CutsFacts
     DEF IInv, TypeOK, ChainTypeOK, StatusTypeOK, RollInv, Follows
<1>3. Clean(chainMostWork)
  BY <1>1 DEF BestInv, BInv, PathKept
<1>4. PICK f \in Chain[chainMostWork] \cap Chain[chainActive] : Near(scripts, f, Cuts + 1)
  BY <1>1, <1>3 DEF RollInv, Reach, LoopNear
<1>5. f \in Chain[p] /\ f \in Blocks /\ Chain[f] \subseteq Chain[p]
  BY <1>1, <1>2, <1>4, ChainFacts
<1>6. Near(scripts, p, Cuts + 1) /\ Near(scripts, chainActive, Cuts + 1)
  <2>1. Height[f] <= Height[p] /\ Height[f] <= Height[chainActive] /\ Cuts + 1 <= Cuts + 1
    BY <1>2, <1>4, <1>5, Ancestors
  <2> QED
    BY <1>2, <1>4, <1>5, <2>1, NearUp
<1>7. ASSUME NEW map \in {mapCheckpointsRolling, rollingFile}
      PROVE  LockedIn(scripts, map) /\ OnChain(map, p) /\ OnChain(map, chainActive)
  <2>1. LockedIn(scripts, map) /\ OnChain(map, chainActive)
    BY <1>1 DEF RollInv, Locks
  <2>2. Budget(Cuts + 1) <= ROLLING_DEPTH
    BY CutsFacts DEF IInv
  <2>3. OnChain(map, f)
    BY <1>2, <1>4, <2>1, <2>2, LockedBelow
  <2> QED
    BY <1>5, <2>1, <2>3, OnChainUp
<1>8. Locks'
  BY <1>1, <1>2, <1>7 DEF Locks, LockedIn, OnChain
<1>9. Follows' /\ ScriptsValid'
  BY <1>1, <1>2 DEF RollInv, Follows, ScriptsValid
<1>10. CASE chainActive' = p /\ dbCoins' = p /\ pc' = "step" /\ diskErrors' = diskErrors
  <2>1. Cuts' = Cuts
    BY <1>1, <1>10, CutsFrame
  <2>2. LoopNear'
    BY <1>1, <1>3, <1>4, <1>5, <1>10, <2>1 DEF LoopNear, Near, Clean
  <2>3. RestNear' /\ AbortedNear' /\ EntryNear' /\ ViewNear'
    BY <1>1, <1>10 DEF RestNear, AbortedNear, EntryNear, ViewNear
  <2> QED
    BY <1>8, <1>9, <2>2, <2>3 DEF RollInv, Reach
<1>11. CASE /\ UNCHANGED <<chainActive, dbCoins>> /\ pc' = "return"
            /\ diskErrors' = diskErrors + 1
  <2>1. Cuts' = Cuts + 1
    <3>1. restarts \in Nat /\ diskErrors \in Nat
      BY ParameterAssumption DEF IInv, TypeOK, BoundTypeOK
    <3>2. Cardinality(dbFailed \cap Bad) \in Nat
      BY RoomFacts, FS_Subset, FS_CardinalityType DEF Enough
    <3> QED
      BY <1>1, <1>11, <3>1, <3>2 DEF Cuts
  <2>2. RestNear' /\ AbortedNear' /\ EntryNear' /\ LoopNear' /\ ViewNear'
    BY <1>1, <1>2, <1>6, <1>11, <2>1 DEF RestNear, AbortedNear, EntryNear, LoopNear, ViewNear, Near
  <2> QED
    BY <1>8, <1>9, <2>2 DEF RollInv, Reach
<1> QED
  BY <1>1, <1>10, <1>11

(* A block on top of the tip, whatever connects it.                         *)
Extends(b) ==
    /\ b \in Blocks \ {Genesis} /\ b \in mapBlockIndex /\ b \notin Bad /\ Parent[b] = chainActive
    /\ scripts' = scripts \cup {b} /\ coinsBest' = b
    /\ UNCHANGED <<mapBlockIndex, failed, chainMostWork, restarts>>
    /\ dbFailed' = dbFailed \/ (b \in failed /\ dbFailed' = dbFailed \cup {b})

LEMMA ExtendsFacts ==
    ASSUME Roomy, IInv, RollInv, pc # "down", NEW b, Extends(b)
    PROVE  /\ chainActive \in Blocks /\ scripts \in SUBSET Blocks /\ dbCoins = chainActive
           /\ Chain[b] = Chain[chainActive] \cup {b} /\ Height[b] = Height[chainActive] + 1
           /\ Height[chainActive] \in Nat /\ Cuts \in Nat
           /\ diskErrors' = diskErrors => Cuts' = Cuts
           /\ diskErrors' = diskErrors + 1 => Cuts' = Cuts + 1
           /\ ScriptsValid' /\ dbFailed' \subseteq failed'
<1>1. /\ chainActive \in Blocks /\ scripts \in SUBSET Blocks /\ dbCoins = chainActive
      /\ dbFailed \subseteq failed
  BY DEF IInv, TypeOK, ChainTypeOK, StatusTypeOK, RollInv, Follows
<1>2. Chain[b] = Chain[chainActive] \cup {b} /\ Height[b] = Height[chainActive] + 1
      /\ Height[chainActive] \in Nat
  BY <1>1, TreeAssumption DEF Extends
<1>3. ScriptsValid'
  <2>1. Chain[b] \cap Bad = {}
    BY <1>2 DEF Extends, IInv, TipsValidated, Validated
  <2> QED
    BY <2>1 DEF Extends, RollInv, ScriptsValid
<1>4. dbFailed' \subseteq failed' /\ dbFailed' \cap Bad = dbFailed \cap Bad
  BY <1>1 DEF Extends
<1>5. restarts \in Nat /\ diskErrors \in Nat /\ Cardinality(dbFailed \cap Bad) \in Nat
  <2>1. restarts \in Nat /\ diskErrors \in Nat
    BY ParameterAssumption DEF IInv, TypeOK, BoundTypeOK
  <2>2. Cardinality(dbFailed \cap Bad) \in Nat
    BY RoomFacts, FS_Subset, FS_CardinalityType DEF Enough
  <2> QED
    BY <2>1, <2>2
<1>6. Cuts \in Nat /\ Cuts' = restarts + diskErrors' + Cardinality(dbFailed \cap Bad)
  BY <1>4, <1>5 DEF Cuts, Extends
<1>7. /\ diskErrors' = diskErrors => Cuts' = Cuts
      /\ diskErrors' = diskErrors + 1 => Cuts' = Cuts + 1
  BY <1>5, <1>6 DEF Cuts
<1> QED
  BY <1>1, <1>2, <1>3, <1>4, <1>6, <1>7

LEMMA RollConnected ==
    ASSUME Roomy, IInv, RollInv, pc \in {"idle", "return", "step"}, pc' = pc, NEW b, Extends(b),
           chainActive' = b, dbCoins' = b, diskErrors' = diskErrors, MaybeRollForward(b),
           pc = "step" => b \in Chain[chainMostWork]
    PROVE  RollInv'
<1>1. /\ chainActive \in Blocks /\ scripts \in SUBSET Blocks /\ dbCoins = chainActive
      /\ Chain[b] = Chain[chainActive] \cup {b} /\ Height[b] = Height[chainActive] + 1
      /\ Height[chainActive] \in Nat /\ Cuts \in Nat /\ Cuts' = Cuts
      /\ ScriptsValid' /\ dbFailed' \subseteq failed'
  BY ExtendsFacts
<1>2. b \in Blocks /\ scripts' = scripts \cup {b} /\ coinsBest' = b
      /\ UNCHANGED <<failed, chainMostWork>>
  BY DEF Extends
<1>3. ASSUME NEW x \in Chain[b], NEW k \in Nat, Near(scripts, x, k)
      PROVE  Near(scripts \cup {b}, b, k)
  <2>1. x \in Blocks /\ Height[x] <= Height[b] /\ k <= k /\ Height[b] <= Height[b]
    BY <1>2, ChainFacts, Ancestors, TreeAssumption
  <2>2. Near(scripts, b, k)
    BY <1>1, <1>2, <1>3, <2>1, NearUp
  <2> QED
    BY <1>1, <1>2, <2>1, <2>2, NearAdd
<1>4. chainActive \in Chain[b] /\ Chain[chainActive] \subseteq Chain[b] /\ b \in Chain[b]
  BY <1>1, <1>2, ChainFacts
<1>5. Locks'
  <2>1. \A map \in {mapCheckpointsRolling, rollingFile} :
           LockedIn(scripts, map) /\ OnChain(map, chainActive)
    BY DEF RollInv, Locks
  <2>2. \A map \in {mapCheckpointsRolling', rollingFile'} :
           LockedIn(scripts \cup {b}, map) /\ OnChain(map, b)
    BY <1>1, <1>2, <2>1, LockedRollForward
  <2> QED
    BY <1>2, <2>2 DEF Locks, LockedIn, OnChain
<1>6. Follows' /\ ViewNear'
  BY <1>1, <1>2 DEF Follows, ViewNear
<1>7. CASE pc \in {"idle", "return"}
  <2>1. Near(scripts \cup {b}, b, Cuts)
    BY <1>1, <1>3, <1>4, <1>7 DEF RollInv, Reach, RestNear
  <2>2. RestNear' /\ AbortedNear' /\ EntryNear' /\ LoopNear'
    BY <1>1, <1>2, <1>7, <2>1 DEF RestNear, AbortedNear, EntryNear, LoopNear, Near
  <2> QED
    BY <1>1, <1>5, <1>6, <2>2 DEF RollInv, Reach
<1>8. CASE pc = "step"
  <2>1. Clean(chainMostWork) => Near(scripts \cup {b}, b, Cuts + 1)
    <3>1. SUFFICES ASSUME Clean(chainMostWork) PROVE Near(scripts \cup {b}, b, Cuts + 1)
      OBVIOUS
    <3>2. PICK f \in Chain[chainActive] : Near(scripts, f, Cuts + 1)
      BY <1>8, <3>1 DEF RollInv, Reach, LoopNear
    <3>3. f \in Chain[b] /\ Cuts + 1 \in Nat
      BY <1>1, <1>4, <3>2
    <3> QED
      BY <1>3, <3>2, <3>3
  <2>2. ~Clean(chainMostWork) => Near(scripts \cup {b}, b, Cuts)
    <3>1. SUFFICES ASSUME ~Clean(chainMostWork) PROVE Near(scripts \cup {b}, b, Cuts)
      OBVIOUS
    <3>2. Near(scripts, chainActive, Cuts)
      BY <1>8, <3>1 DEF RollInv, Reach, LoopNear
    <3> QED
      BY <1>1, <1>3, <1>4, <3>2
  <2>3. LoopNear'
    <3>1. Clean(chainMostWork)' <=> Clean(chainMostWork)
      BY <1>2 DEF Clean
    <3> QED
      BY <1>1, <1>2, <1>4, <1>8, <2>1, <2>2, <3>1 DEF LoopNear, Near
  <2>4. RestNear' /\ AbortedNear' /\ EntryNear'
    BY <1>8 DEF RestNear, AbortedNear, EntryNear
  <2> QED
    BY <1>1, <1>5, <1>6, <2>3, <2>4 DEF RollInv, Reach
<1> QED
  BY <1>7, <1>8

(* The view has moved on to the block, and nothing else.                    *)
LEMMA RollConnectFails ==
    ASSUME Roomy, IInv, RollInv, pc # "down", pc' \in {"idle", "return"}, NEW b, Extends(b),
           UNCHANGED <<chainActive, dbCoins, rollingVars>>, diskErrors' = diskErrors + 1
    PROVE  RollInv'
<1>1. /\ chainActive \in Blocks /\ scripts \in SUBSET Blocks /\ dbCoins = chainActive
      /\ Chain[b] = Chain[chainActive] \cup {b} /\ Height[b] = Height[chainActive] + 1
      /\ Height[chainActive] \in Nat /\ Cuts \in Nat /\ Cuts' = Cuts + 1
      /\ ScriptsValid' /\ dbFailed' \subseteq failed'
  BY ExtendsFacts
<1>2. b \in Blocks /\ scripts' = scripts \cup {b} /\ coinsBest' = b
      /\ UNCHANGED <<mapCheckpointsRolling, rollingFile>>
  BY DEF Extends, rollingVars
<1>3. Near(scripts, chainActive, Cuts + 1) /\ Cuts + 1 \in Nat /\ Cuts + 1 > 0
  BY <1>1, NearAnyTime
<1>4. Near(scripts \cup {b}, chainActive, Cuts + 1)
  BY <1>1, <1>2, <1>3, NearAdd
<1>5. Near(scripts \cup {b}, b, Cuts + 1)
  <2>1. Height[chainActive] <= Height[b] /\ Cuts + 1 <= Cuts + 1 /\ scripts \cup {b} \in SUBSET Blocks
    BY <1>1, <1>2
  <2> QED
    BY <1>1, <1>2, <1>3, <1>4, <2>1, NearUp
<1>6. Locks'
  <2>1. ASSUME NEW map \in {mapCheckpointsRolling, rollingFile}
        PROVE  LockedIn(scripts \cup {b}, map) /\ OnChain(map, chainActive) /\ OnChain(map, b)
    BY <1>1, OnChainUp DEF RollInv, Locks, LockedIn
  <2> QED
    BY <1>1, <1>2, <2>1 DEF Locks, LockedIn, OnChain
<1>7. Follows'
  BY <1>1 DEF Follows
<1>8. RestNear' /\ AbortedNear' /\ EntryNear' /\ LoopNear' /\ ViewNear'
  BY <1>1, <1>2, <1>4, <1>5 DEF RestNear, AbortedNear, EntryNear, LoopNear, ViewNear, Near
<1> QED
  BY <1>1, <1>6, <1>7, <1>8 DEF RollInv, Reach

LEMMA RollConnect ==
    ASSUME Roomy, IInv, RollInv, NEW b \in Blocks, CheckedConnectTip(b)
    PROVE  RollInv'
<1>1. /\ ConnectTip(b) /\ SavedWithTip /\ Connecting(b) /\ pc = "step" /\ ~InitialDownload
      /\ IF pc' = "step" THEN MaybeRollForward(b) ELSE UNCHANGED rollingVars
  BY RoomFacts DEF CheckedConnectTip, ConnectTip, Connecting, Enough
<1>2. b # Genesis /\ Parent[b] = chainActive /\ b \in Chain[chainMostWork] /\ b \in mapBlockIndex
  BY <1>1, ConnectingExtends DEF IInv, HandlesIndexed, IndexClosed, Connecting
<1>3. Extends(b)
  BY <1>1, <1>2 DEF ConnectTip, Extends, indexVars
<1>4. CASE chainActive' = b /\ pc' = "step" /\ diskErrors' = diskErrors
  <2>1. dbCoins' = b /\ MaybeRollForward(b)
    BY <1>1, <1>3, <1>4 DEF SavedWithTip, Extends
  <2> QED
    BY <1>1, <1>2, <1>3, <1>4, <2>1, RollConnected
<1>5. CASE /\ UNCHANGED <<dbCoins, chainActive>> /\ pc' = "return" /\ diskErrors' = diskErrors + 1
  BY <1>1, <1>3, <1>5, RollConnectFails
<1> QED
  BY <1>1, <1>4, <1>5 DEF ConnectTip, WriteChainState

-----------------------------------------------------------------------------
(* The steps that cut an activation short, or end it.                       *)

LEMMA CutsParts ==
    ASSUME Roomy, TypeOK
    PROVE  restarts \in Nat /\ diskErrors \in Nat /\ Cardinality(dbFailed \cap Bad) \in Nat
<1>1. restarts \in Nat /\ diskErrors \in Nat
  BY ParameterAssumption DEF TypeOK, BoundTypeOK
<1>2. Cardinality(dbFailed \cap Bad) \in Nat
  BY RoomFacts, FS_Subset, FS_CardinalityType DEF Enough
<1> QED
  BY <1>1, <1>2

(* The database remembers one invalid block more.                           *)
LEMMA CutsInvalid ==
    ASSUME Roomy, TypeOK, NEW b \in Bad, dbFailed' = dbFailed \cup {b},
           UNCHANGED <<restarts, diskErrors>>
    PROVE  /\ b \in dbFailed => Cuts' = Cuts
           /\ b \notin dbFailed => Cuts' = Cuts + 1
<1> DEFINE F == dbFailed \cap Bad
<1>1. dbFailed' \cap Bad = F \cup {b}
  OBVIOUS
<1>2. IsFiniteSet(F)
  BY RoomFacts, FS_Subset DEF Enough
<1>3. Cardinality(F \cup {b}) = IF b \in F THEN Cardinality(F) ELSE Cardinality(F) + 1
  BY <1>2, FS_AddElement
<1>4. Cardinality(dbFailed' \cap Bad) = IF b \in dbFailed THEN Cardinality(F) ELSE Cardinality(F) + 1
  BY <1>1, <1>3
<1> QED
  BY <1>4, CutsParts DEF Cuts

(* More interruptions and nothing else: the view stays near.                *)
LEMMA ViewStays ==
    ASSUME Roomy, IInv, RollInv, pc # "down", UNCHANGED <<scripts, coinsBest, chainActive>>,
           Cuts' \in {Cuts, Cuts + 1}
    PROVE  ViewNear' /\ (Near(scripts, chainActive, Cuts) => Near(scripts, chainActive, Cuts'))
<1>1. /\ Cuts \in Nat /\ Cuts' \in Nat /\ Cuts <= Cuts' /\ scripts \in SUBSET Blocks
      /\ coinsBest \in Blocks /\ chainActive \in Blocks
  BY CutsFacts DEF IInv, TypeOK, StatusTypeOK, ChainTypeOK
<1>2. ASSUME NEW x \in Blocks, Near(scripts, x, Cuts) PROVE Near(scripts, x, Cuts')
  <2>1. Height[x] <= Height[x]
    BY TreeAssumption
  <2> QED
    BY <1>1, <1>2, <2>1, NearUp
<1>3. ViewNear'
  BY <1>1, <1>2 DEF RollInv, Reach, ViewNear, Near
<1> QED
  BY <1>1, <1>2, <1>3

LEMMA RollInvalid ==
    ASSUME Roomy, IInv, BestInv, RollInv, NEW b \in Blocks, InvalidBlockFound(b), UNCHANGED rollingVars
    PROVE  RollInv'
<1>1. /\ pc = "step" /\ pc' = "find" /\ chainActive \in Chain[chainMostWork]
      /\ b \in Chain[chainMostWork]
      /\ UNCHANGED <<scripts, chainActive, chainMostWork, coinsBest, dbCoins, mapBlockIndex>>
      /\ UNCHANGED <<nSequenceId, addr, restarts, diskErrors>>
      /\ \/ UNCHANGED <<failed, dbFailed>>
         \/ b \in Bad /\ failed' = failed \cup {b} /\ dbFailed' = dbFailed \cup {b}
  BY DEF InvalidBlockFound, Connecting, CorruptionPossible, chainVars, indexVars, boundVars
<1>2. dbFailed \subseteq failed /\ Cuts \in Nat
  BY <1>1, CutsFacts DEF RollInv, Follows, IInv
<1>3. Locks' /\ Follows' /\ ScriptsValid'
  <2>1. dbFailed' \subseteq failed'
    BY <1>1, <1>2
  <2> QED
    BY <1>1, <2>1, RollFrame
<1>4. RestNear' /\ AbortedNear' /\ LoopNear'
  BY <1>1 DEF RestNear, AbortedNear, LoopNear
<1>5. Near(scripts, chainActive, Cuts + 1) /\ (~Clean(chainMostWork) => Near(scripts, chainActive, Cuts))
  BY <1>1, NearAnyTime DEF RollInv, Reach, LoopNear
<1>6. CASE UNCHANGED <<failed, dbFailed>>
  <2>1. Cuts' = Cuts
    BY <1>1, <1>6, CutsFrame
  <2>2. Clean(chainMostWork) => Preferred
    BY <1>1 DEF BestInv, BInv, BestSoFar, Preferred
  <2>3. Preferred => Preferred'
    BY <1>1, <1>6 DEF Preferred, Clean, Worse
  <2>4. EntryNear'
    BY <1>1, <1>5, <2>1, <2>2, <2>3 DEF EntryNear, Near
  <2>5. ViewNear'
    BY <1>1, <2>1, ViewStays
  <2> QED
    BY <1>3, <1>4, <2>4, <2>5 DEF RollInv, Reach
<1>7. CASE b \in Bad /\ failed' = failed \cup {b} /\ dbFailed' = dbFailed \cup {b}
  <2>1. Cuts' \in {Cuts, Cuts + 1} /\ (b \notin dbFailed => Cuts' = Cuts + 1)
    BY <1>1, <1>7, CutsInvalid DEF IInv
  <2>2. Clean(chainMostWork) => b \notin dbFailed
    BY <1>1, <1>2 DEF Clean
  <2>3. Near(scripts, chainActive, Cuts')
    <3>1. CASE Clean(chainMostWork)
      BY <1>5, <2>1, <2>2, <3>1
    <3>2. CASE ~Clean(chainMostWork)
      BY <1>1, <1>5, <2>1, <3>2, ViewStays
    <3> QED
      BY <3>1, <3>2
  <2>4. EntryNear'
    BY <1>1, <2>3 DEF EntryNear, Near
  <2>5. ViewNear'
    BY <1>1, <2>1, ViewStays
  <2> QED
    BY <1>3, <1>4, <2>4, <2>5 DEF RollInv, Reach
<1> QED
  BY <1>1, <1>6, <1>7

LEMMA RollReadFails ==
    ASSUME Roomy, IInv, RollInv, ReadBlockFails, UNCHANGED rollingVars
    PROVE  RollInv'
<1>1. /\ pc = "step" /\ pc' = "return" /\ diskErrors' = diskErrors + 1
      /\ UNCHANGED <<scripts, chainActive, coinsBest, dbCoins, mapBlockIndex>>
      /\ UNCHANGED <<failed, dbFailed, restarts>>
  BY DEF ReadBlockFails, Disconnecting, Connecting, chainVars, indexVars, statusVars, dbVars
<1>2. Cuts' = Cuts + 1
  BY <1>1, CutsParts DEF IInv, Cuts
<1>3. Locks' /\ Follows' /\ ScriptsValid'
  BY <1>1, RollFrame DEF RollInv, Follows
<1>4. Near(scripts, dbCoins, Cuts')
  BY <1>1, <1>2, NearAnyTime
<1>5. RestNear' /\ AbortedNear' /\ EntryNear' /\ LoopNear'
  BY <1>1, <1>4 DEF RestNear, AbortedNear, EntryNear, LoopNear, Near
<1>6. ViewNear'
  BY <1>1, <1>2, ViewStays
<1> QED
  BY <1>3, <1>5, <1>6 DEF RollInv, Reach

LEMMA RollAborts ==
    ASSUME Roomy, IInv, RollInv, pc \in {"step", "idle", "return"}, pc' = "aborted",
           UNCHANGED <<indexVars, statusVars, chainVars, dbVars, boundVars, rollingVars>>
    PROVE  RollInv'
<1>1. /\ UNCHANGED <<scripts, chainActive, coinsBest, dbCoins, mapBlockIndex>>
      /\ UNCHANGED <<failed, dbFailed, restarts, diskErrors>>
  BY DEF chainVars, indexVars, statusVars, dbVars, boundVars
<1>2. Cuts' = Cuts
  BY <1>1, CutsFrame
<1>3. Locks' /\ Follows' /\ ScriptsValid'
  BY <1>1, RollFrame DEF RollInv, Follows
<1>4. Near(scripts, dbCoins, Cuts + 1)
  BY NearAnyTime
<1>5. RestNear' /\ AbortedNear' /\ EntryNear' /\ LoopNear'
  BY <1>1, <1>2, <1>4 DEF RestNear, AbortedNear, EntryNear, LoopNear, Near
<1>6. ViewNear'
  BY <1>1, <1>2, ViewStays
<1> QED
  BY <1>3, <1>5, <1>6 DEF RollInv, Reach

(* Where an activation ends there is no block of less height to come from:  *)
(* what has been connected once is valid, and the tip has as much work.     *)
LEMMA RollComplete ==
    ASSUME Roomy, IInv, BestInv, RollInv, ActivationComplete, UNCHANGED rollingVars
    PROVE  RollInv'
<1>1. /\ pc = "step" /\ pc' = "return" /\ chainActive = chainMostWork
      /\ UNCHANGED <<scripts, chainActive, coinsBest, dbCoins, mapBlockIndex>>
      /\ UNCHANGED <<failed, dbFailed, restarts, diskErrors>>
  BY DEF ActivationComplete, chainVars, indexVars, statusVars, dbVars, boundVars
<1>2. Cuts' = Cuts /\ Cuts \in Nat
  BY <1>1, CutsFrame, CutsFacts DEF IInv
<1>3. Locks' /\ Follows' /\ ScriptsValid' /\ dbCoins = chainActive
  BY <1>1, RollFrame DEF RollInv, Follows
<1>4. chainActive \in Blocks /\ scripts \subseteq Blocks
  BY DEF IInv, TypeOK, ChainTypeOK, StatusTypeOK
<1>5. ASSUME NEW v \in scripts, Height[v] >= RollingActivation + ROLLING_DEPTH
      PROVE  Height[v] <= Height[chainActive] + Budget(Cuts)
  <2>1. v \in Blocks /\ v \in mapBlockIndex /\ Chain[v] \cap Bad = {}
    BY <1>4 DEF RollInv, ScriptsValid
  <2>2. Clean(v)
    BY <2>1, ChainFacts DEF Clean, IInv, FailedIsJustified
  <2>3. ~Worse(chainActive, v)
    BY <1>1, <2>1, <2>2 DEF BestInv, BInv, BestSoFar
  <2>4. Work[chainActive] >= Work[v]
    <3>1. Work[chainActive] \in Nat /\ Work[v] \in Nat
      BY <1>4, <2>1, TreeAssumption
    <3> QED
      BY <2>3, <3>1 DEF Worse
  <2>5. Height[v] <= Height[chainActive] + Slack
    BY <1>4, <1>5, <2>1, <2>4, RoomFacts DEF Enough
  <2>6. /\ Slack <= Budget(Cuts) /\ Slack \in Nat /\ Budget(Cuts) \in Nat
        /\ Height[v] \in Nat /\ Height[chainActive] \in Nat
    BY <1>2, <1>4, <2>1, RoomFacts, BudgetFacts, TreeAssumption
  <2> QED
    BY <2>5, <2>6
<1>6. Near(scripts, chainActive, Cuts)
  BY <1>5 DEF Near
<1>7. RestNear' /\ AbortedNear' /\ EntryNear' /\ LoopNear'
  BY <1>1, <1>2, <1>3, <1>6 DEF RestNear, AbortedNear, EntryNear, LoopNear, Near
<1>8. ViewNear'
  BY <1>1, <1>2, ViewStays
<1> QED
  BY <1>3, <1>7, <1>8 DEF RollInv, Reach

LEMMA RollDown ==
    ASSUME Roomy, IInv, RollInv, Shutdown \/ Crash, UNCHANGED rollingVars
    PROVE  RollInv'
<1>1. /\ pc # "down" /\ pc' = "down" /\ restarts' = restarts + 1
      /\ UNCHANGED <<scripts, mapBlockIndex, dbFailed, diskErrors, mapCheckpointsRolling, rollingFile>>
      /\ \/ pc = "idle" /\ dbCoins' = coinsBest
         \/ dbCoins' = dbCoins
  BY DEF Shutdown, Crash, indexVars, statusVars, dbVars, rollingVars
<1>2. Cuts' = Cuts + 1 /\ Cuts \in Nat
  BY <1>1, CutsParts, CutsFacts DEF IInv, Cuts
<1>3. Near(scripts, dbCoins, Cuts + 1) /\ dbCoins = chainActive
  BY <1>1, NearAnyTime
<1>4. coinsBest # chainActive => Near(scripts, coinsBest, Cuts + 1)
  <2>1. coinsBest \in Blocks /\ scripts \in SUBSET Blocks
    BY DEF IInv, TypeOK, ChainTypeOK, StatusTypeOK
  <2>2. Height[coinsBest] <= Height[coinsBest] /\ Cuts <= Cuts + 1 /\ Cuts + 1 \in Nat
    BY <1>2, <2>1, TreeAssumption
  <2>3. Near(scripts, coinsBest, Cuts) => Near(scripts, coinsBest, Cuts + 1)
    BY <1>2, <2>1, <2>2, NearUp
  <2> QED
    BY <1>1, <2>3 DEF RollInv, Reach, ViewNear
<1>5. Near(scripts, dbCoins', Cuts')
  BY <1>1, <1>2, <1>3, <1>4
<1>6. Locks'
  BY <1>1 DEF RollInv, Locks, LockedIn, OnChain
<1>7. Follows' /\ ScriptsValid'
  BY <1>1 DEF RollInv, Follows, ScriptsValid
<1>8. RestNear' /\ AbortedNear' /\ EntryNear' /\ LoopNear' /\ ViewNear'
  BY <1>1, <1>5 DEF RestNear, AbortedNear, EntryNear, LoopNear, ViewNear, Near
<1> QED
  BY <1>6, <1>7, <1>8 DEF RollInv, Reach

LEMMA RollLoad ==
    ASSUME Roomy, IInv, RollInv, CheckedLoad
    PROVE  RollInv'
<1>1. /\ pc = "down" /\ pc' = "find" /\ chainActive' = dbCoins /\ coinsBest' = dbCoins
      /\ dbCoins' = dbCoins /\ dbFailed' = dbFailed /\ failed' = dbFailed
      /\ scripts' = scripts /\ mapBlockIndex' = mapBlockIndex
      /\ UNCHANGED <<restarts, diskErrors, rollingFile>>
      /\ mapCheckpointsRolling' = Loaded
  BY DEF CheckedLoad, LoadBlockIndexDB, LoadedTip, dbVars, boundVars, IInv, IndexRecorded
<1>2. Cuts' = Cuts
  BY <1>1, CutsFrame
<1>3. DOMAIN Loaded \subseteq DOMAIN rollingFile /\ \A h \in DOMAIN Loaded : Loaded[h] = rollingFile[h]
  <2> DEFINE kept == [h \in DOMAIN rollingFile \ {0} |-> rollingFile[h]]
  <2>1. DOMAIN kept = DOMAIN rollingFile \ {0} /\ \A h \in DOMAIN kept : kept[h] = rollingFile[h]
    OBVIOUS
  <2>2. PICK map : map = kept
    OBVIOUS
  <2>3. Loaded = [h \in Highest(DOMAIN map, ROLLING_KEEP) |-> map[h]]
    BY <2>2 DEF Loaded, Collected
  <2>4. Highest(DOMAIN map, ROLLING_KEEP) \subseteq DOMAIN map
    BY DEF Highest
  <2> QED
    BY <2>1, <2>2, <2>3, <2>4
<1>4. ASSUME NEW map \in {mapCheckpointsRolling', rollingFile'}
      PROVE  LockedIn(scripts, map) /\ OnChain(map, dbCoins)
  <2>1. LockedIn(scripts, rollingFile) /\ OnChain(rollingFile, dbCoins)
    BY DEF RollInv, Locks
  <2>2. LockedIn(scripts, Loaded) /\ OnChain(Loaded, dbCoins)
    BY <1>3, <2>1, LockedFewer
  <2> QED
    BY <1>1, <2>1, <2>2
<1>5. Locks'
  BY <1>1, <1>4 DEF Locks, LockedIn, OnChain
<1>6. Follows' /\ ScriptsValid'
  BY <1>1 DEF RollInv, Follows, ScriptsValid
<1>7. Near(scripts, dbCoins, Cuts)
  BY <1>1 DEF RollInv, Reach, RestNear
<1>8. RestNear' /\ AbortedNear' /\ EntryNear' /\ LoopNear' /\ ViewNear'
  BY <1>1, <1>2, <1>7 DEF RestNear, AbortedNear, EntryNear, LoopNear, ViewNear, Near
<1> QED
  BY <1>5, <1>6, <1>8 DEF RollInv, Reach

LEMMA RollClear ==
    ASSUME RollInv, NEW n, ClearRollingCheckpointsBelow(n)
    PROVE  RollInv'
<1>1. UNCHANGED vars /\ rollingFile' = mapCheckpointsRolling'
      /\ DOMAIN mapCheckpointsRolling' \subseteq DOMAIN mapCheckpointsRolling
      /\ \A h \in DOMAIN mapCheckpointsRolling' : mapCheckpointsRolling'[h] = mapCheckpointsRolling[h]
  BY DEF ClearRollingCheckpointsBelow
<1>2. /\ UNCHANGED <<scripts, chainActive, chainMostWork, coinsBest, dbCoins, mapBlockIndex>>
      /\ UNCHANGED <<failed, dbFailed, restarts, diskErrors, pc, nSequenceId, addr>>
  BY <1>1 DEF vars, indexVars, statusVars, chainVars, dbVars, boundVars
<1>3. Locks'
  <2>1. ASSUME NEW x, OnChain(mapCheckpointsRolling, x) PROVE OnChain(mapCheckpointsRolling', x)
    BY <1>1, <2>1 DEF OnChain
  <2>2. LockedIn(scripts, mapCheckpointsRolling')
    BY <1>1 DEF RollInv, Locks, LockedIn
  <2>3. /\ OnChain(mapCheckpointsRolling', dbCoins)
        /\ pc # "down" => /\ OnChain(mapCheckpointsRolling', coinsBest)
                          /\ OnChain(mapCheckpointsRolling', chainActive)
    BY <2>1 DEF RollInv, Locks
  <2> QED
    BY <1>1, <1>2, <2>2, <2>3 DEF Locks, LockedIn, OnChain
<1>4. Follows' /\ ScriptsValid' /\ Cuts' = Cuts
  BY <1>2, CutsFrame DEF RollInv, Follows, ScriptsValid
<1>5. Preferred' <=> Preferred
  BY <1>2 DEF Preferred, Clean, Worse
<1>6. RestNear' /\ AbortedNear' /\ EntryNear' /\ LoopNear' /\ ViewNear'
  BY <1>2, <1>4, <1>5
     DEF RollInv, Reach, RestNear, AbortedNear, EntryNear, LoopNear, ViewNear, Near, Clean
<1> QED
  BY <1>3, <1>4, <1>6 DEF RollInv, Reach

LEMMA RollNotConnected ==
    ASSUME Roomy, IInv, RollInv, NEW b \in Blocks, CheckpointNotConnected(b),
           pc \in {"idle", "return"}, UNCHANGED pc
    PROVE  RollInv'
<1>1. /\ UNCHANGED <<scripts, chainActive, coinsBest, dbCoins, mapBlockIndex, restarts, rollingVars>>
      /\ \/ UNCHANGED <<failed, dbFailed>> /\ diskErrors' \in {diskErrors, diskErrors + 1}
         \/ /\ b \in Bad /\ UNCHANGED diskErrors
            /\ failed' = failed \cup {b} /\ dbFailed' = dbFailed \cup {b}
  BY DEF CheckpointNotConnected, CorruptionPossible, indexVars, statusVars, chainVars, dbVars
<1>2. dbFailed' \subseteq failed' /\ dbCoins = chainActive
  BY <1>1 DEF RollInv, Follows
<1>3. Cuts' \in {Cuts, Cuts + 1}
  <2>1. CASE UNCHANGED <<failed, dbFailed>> /\ diskErrors' \in {diskErrors, diskErrors + 1}
    BY <1>1, <2>1, CutsParts DEF IInv, Cuts
  <2>2. CASE /\ b \in Bad /\ UNCHANGED diskErrors
             /\ failed' = failed \cup {b} /\ dbFailed' = dbFailed \cup {b}
    BY <1>1, <2>2, CutsInvalid DEF IInv
  <2> QED
    BY <1>1, <2>1, <2>2
<1>4. Locks' /\ Follows' /\ ScriptsValid'
  BY <1>1, <1>2, RollFrame
<1>5. Near(scripts, dbCoins, Cuts') /\ ViewNear'
  BY <1>1, <1>2, <1>3, ViewStays DEF RollInv, Reach, RestNear
<1>6. RestNear' /\ AbortedNear' /\ EntryNear' /\ LoopNear'
  BY <1>1, <1>5 DEF RestNear, AbortedNear, EntryNear, LoopNear, Near
<1> QED
  BY <1>4, <1>5, <1>6 DEF RollInv, Reach

LEMMA RollCheckpointConnected ==
    ASSUME Roomy, IInv, RollInv, NEW b \in mapBlockIndex, ~IsInMainChain(b), CheckpointConnected(b),
           pc \in {"idle", "return"}, UNCHANGED pc
    PROVE  RollInv'
<1>1. b \in Blocks \ {Genesis} /\ Parent[b] = chainActive /\ b \notin Bad
  BY CheckpointChild DEF CheckpointConnected
<1>2. Extends(b)
  BY <1>1 DEF CheckpointConnected, Extends, indexVars
<1>3. CASE /\ chainActive' = b /\ dbCoins' = b /\ diskErrors' = diskErrors /\ MaybeRollForward(b)
  BY <1>2, <1>3, RollConnected
<1>4. CASE UNCHANGED <<dbCoins, chainActive, rollingVars>> /\ diskErrors' = diskErrors + 1
  BY <1>2, <1>4, RollConnectFails
<1> QED
  BY <1>3, <1>4, RoomFacts DEF CheckpointConnected, Enough

LEMMA RollAcceptSync ==
    ASSUME Roomy, IInv, RollInv, NEW b \in mapBlockIndex, AcceptSyncCheckpoint(b),
           pc \in {"idle", "return"}
    PROVE  RollInv'
<1>1. CASE UNCHANGED <<vars, rollingVars>>
  BY <1>1, RollStill DEF vars, indexVars, statusVars, chainVars, dbVars, boundVars
<1>2. b \in Blocks
  BY DEF IInv, TypeOK, IndexTypeOK
<1> QED
  BY <1>1, <1>2, RollNotConnected, RollCheckpointConnected DEF AcceptSyncCheckpoint

LEMMA RollAssertsExtension ==
    ASSUME Roomy, IInv, RollInv, NEW b, AssertsExtension(b), pc \in {"idle", "return"}
    PROVE  RollInv'
BY RollAborts DEF AssertsExtension, checkpointVars

-----------------------------------------------------------------------------
LEMMA RollStep ==
    ASSUME Roomy, CInv, BestInv, RollInv, [CheckpointNext]_allVars
    PROVE  RollInv'
<1>0. IInv
  BY DEF CInv
<1>1. ASSUME NEW b \in Blocks, CheckedReceiveBlock(b) \/ CheckedAcceptOrphan(b) PROVE RollInv'
  <2>1. pc \in {"idle", "orphans"} /\ AddToBlockIndex(b) /\ UNCHANGED rollingVars /\ UNCHANGED boundVars
    BY <1>1 DEF CheckedReceiveBlock, CheckedAcceptOrphan, ReceiveBlock, AcceptOrphan, checkpointVars
  <2> QED
    BY <2>1, RollStill DEF AddToBlockIndex, chainVars, boundVars
<1>2. ASSUME NEW b \in Blocks, CheckpointRefusesOrphan(b) PROVE RollInv'
  BY <1>2, RollStill
     DEF CheckpointRefusesOrphan, indexVars, statusVars, chainVars, dbVars, boundVars, checkpointVars
<1>3. ASSUME NEW b \in Blocks, CheckedConnectTip(b) PROVE RollInv'
  BY <1>0, <1>3, RollConnect
<1>4. CASE CheckedDisconnectTip
  BY <1>0, <1>4, RollDisconnect
<1>5. CASE CheckedReturn
  BY <1>5, RollStill
     DEF CheckedReturn, Return, indexVars, statusVars, chainVars, dbVars, boundVars
<1>6. CASE CheckedLoad
  BY <1>0, <1>6, RollLoad
<1>7. ASSUME NEW b \in Blocks, ProcessSyncCheckpoint(b) PROVE RollInv'
  <2>1. CASE UNCHANGED <<vars, rollingVars>>
    BY <1>7, <2>1, RollStill
       DEF ProcessSyncCheckpoint, vars, indexVars, statusVars, chainVars, dbVars, boundVars
  <2>2. CASE b \in mapBlockIndex /\ AcceptSyncCheckpoint(b)
    BY <1>0, <1>7, <2>2, RollAcceptSync DEF ProcessSyncCheckpoint
  <2>3. CASE AssertsExtension(b)
    BY <1>0, <1>7, <2>3, RollAssertsExtension DEF ProcessSyncCheckpoint
  <2> QED
    BY <1>7, <2>1, <2>2, <2>3 DEF ProcessSyncCheckpoint
<1>8. CASE AcceptPendingSyncCheckpoint
  <2> DEFINE b == hashPendingCheckpoint
  <2>1. pc = "return" /\ b \in mapBlockIndex
    BY <1>8 DEF AcceptPendingSyncCheckpoint, PendingWanted
  <2>2. CASE UNCHANGED <<vars, rollingVars>>
    BY <2>1, <2>2, RollStill DEF vars, indexVars, statusVars, chainVars, dbVars, boundVars
  <2>3. CASE AcceptSyncCheckpoint(b)
    BY <1>0, <2>1, <2>3, RollAcceptSync
  <2>4. CASE AssertsExtension(b)
    BY <1>0, <2>1, <2>4, RollAssertsExtension
  <2> QED
    BY <1>8, <2>2, <2>3, <2>4 DEF AcceptPendingSyncCheckpoint
<1>9. ASSUME NEW h \in DOMAIN mapCheckpointsRolling, ClearRollingCheckpointsBelow(h + 1) PROVE RollInv'
  BY <1>9, RollClear
<1>10. CASE Unchecked
  <2>1. UNCHANGED rollingVars
    BY <1>10 DEF Unchecked, checkpointVars
  <2>2. ASSUME NEW b \in Blocks, ReceiveOrphan(b) \/ RefuseOrphan(b) PROVE RollInv'
    BY <2>1, <2>2, RollStill
       DEF ReceiveOrphan, RefuseOrphan, indexVars, statusVars, chainVars, dbVars, boundVars
  <2>3. CASE NextInWorkQueue
    BY <2>1, <2>3, RollStill
       DEF NextInWorkQueue, indexVars, statusVars, chainVars, dbVars, boundVars
  <2>4. ASSUME NEW b \in Blocks, InvalidBlockFound(b) PROVE RollInv'
    BY <1>0, <2>1, <2>4, RollInvalid
  <2>5. CASE FindMostWorkChain \/ ReorgGate \/ ReadBlockFails \/ ActivationComplete
    BY <1>0, <2>1, <2>5, RollFind, RollGate, RollReadFails, RollComplete
  <2>6. CASE AssertFails
    <3>1. pc = "step" /\ pc' = "aborted"
          /\ UNCHANGED <<indexVars, statusVars, chainVars, dbVars, boundVars>>
      BY <2>6 DEF AssertFails, Disconnecting, Connecting
    <3> QED
      BY <1>0, <2>1, <3>1, RollAborts
  <2>7. CASE Shutdown \/ Crash
    BY <1>0, <2>1, <2>7, RollDown
  <2> QED
    BY <1>10, <2>2, <2>3, <2>4, <2>5, <2>6, <2>7 DEF Unchecked
<1>11. CASE UNCHANGED allVars
  <2>1. /\ UNCHANGED <<scripts, chainActive, chainMostWork, coinsBest, dbCoins, mapBlockIndex>>
        /\ UNCHANGED <<failed, dbFailed, restarts, diskErrors, pc, nSequenceId, addr>>
        /\ UNCHANGED <<mapCheckpointsRolling, rollingFile>>
    BY <1>11 DEF allVars, vars, indexVars, statusVars, chainVars, dbVars, boundVars, checkpointVars, rollingVars
  <2>2. Cuts' = Cuts /\ (Preferred' <=> Preferred)
    BY <2>1, CutsFrame DEF Preferred, Clean, Worse
  <2>3. Locks' /\ Follows' /\ ScriptsValid'
    BY <2>1 DEF RollInv, Locks, LockedIn, OnChain, Follows, ScriptsValid
  <2>4. Reach'
    BY <2>1, <2>2
       DEF RollInv, Reach, RestNear, AbortedNear, EntryNear, LoopNear, ViewNear, Near, Clean
  <2> QED
    BY <2>3, <2>4 DEF RollInv
<1> QED
  BY <1>1, <1>2, <1>3, <1>4, <1>5, <1>6, <1>7, <1>8, <1>9, <1>10, <1>11 DEF CheckpointNext

LEMMA RollInit == ASSUME Roomy, CheckpointInit PROVE RollInv
<1>1. /\ scripts = {Genesis} /\ mapBlockIndex = {Genesis} /\ chainActive = Genesis
      /\ coinsBest = Genesis /\ dbCoins = Genesis /\ pc = "idle" /\ failed = {} /\ dbFailed = {}
      /\ restarts = 0 /\ diskErrors = 0 /\ mapCheckpointsRolling = None /\ rollingFile = None
  BY DEF CheckpointInit, Init
<1>2. Cuts = 0
  <2>1. dbFailed \cap Bad = {}
    BY <1>1
  <2> QED
    BY <1>1, <2>1, FS_EmptySet DEF Cuts
<1>3. Locks
  BY <1>1 DEF Locks, LockedIn, OnChain, None
<1>4. Follows /\ ScriptsValid
  BY <1>1, TreeAssumption, ParameterAssumption DEF Follows, ScriptsValid
<1>5. Near({Genesis}, Genesis, 0)
  <2>1. Height[Genesis] \in Nat /\ Budget(0) \in Nat
    BY TreeAssumption, BudgetFacts
  <2> QED
    BY <2>1 DEF Near
<1>6. Reach
  BY <1>1, <1>2, <1>5 DEF Reach, RestNear, AbortedNear, EntryNear, LoopNear, ViewNear
<1> QED
  BY <1>3, <1>4, <1>6 DEF RollInv

(* pow.h:87-91, for every tree, every broadcast and every death: what a     *)
(* rolling checkpoint has locked in stays on the active chain, in memory    *)
(* and in the file.                                                         *)
THEOREM AlwaysRollingOnActive ==
    ASSUME Roomy, Untangled
    PROVE  CheckpointSpec => []RollingOnActive
<1>1. CheckpointInit => RollInv
  BY RollInit
<1>2. CInv /\ BestInv /\ RollInv /\ [CheckpointNext]_allVars => RollInv'
  BY RollStep
<1>3. RollInv => RollingOnActive
  BY DEF RollInv, Locks, OnChain, RollingOnActive, Alive
<1> QED
  BY <1>1, <1>2, <1>3, CheckpointInvariant, BestBesideCheckpoints, PTL DEF CheckpointSpec

-----------------------------------------------------------------------------
(* A block connected for a checkpoint, between activations, lifts the tip   *)
(* and leaves the fork where it was.                                        *)
LEMMA UnwoundBeside ==
    ASSUME IInv, Unwound, pc \in {"idle", "return"}, UNCHANGED pc,
           NEW b \in mapBlockIndex, ~IsInMainChain(b),
           CheckpointNotConnected(b) \/ CheckpointConnected(b)
    PROVE  Unwound'
<1>1. pindexOldTip' = pindexOldTip
  BY DEF CheckpointNotConnected, CheckpointConnected, callVars
<1>2. Chain[chainActive] \subseteq Chain[chainActive']
  <2>1. CASE CheckpointConnected(b)
    BY <2>1, CheckpointChild DEF CheckpointConnected
  <2>2. CASE CheckpointNotConnected(b)
    BY <2>2 DEF CheckpointNotConnected, chainVars
  <2> QED
    BY <2>1, <2>2
<1>3. CASE pc = "return"
  <2>1. PICK f \in Chain[chainActive] \cap Chain[pindexOldTip] : Within(f)
    BY <1>3 DEF Unwound
  <2> QED
    BY <1>1, <1>2, <1>3, <2>1 DEF Unwound, Within
<1>4. CASE pc = "idle"
  BY <1>4 DEF Unwound
<1> QED
  BY <1>3, <1>4

LEMMA UnwoundCheckpointStep ==
    ASSUME CInv, BestInv, Bad = {}, Unwound, [CheckpointNext]_allVars
    PROVE  Unwound'
<1>0. IInv /\ BInv
  BY DEF CInv, BestInv
<1>1. CASE [Next]_vars
  BY <1>0, <1>1, UnwoundStep
<1>2. ASSUME NEW b \in Blocks, CheckpointRefusesOrphan(b) \/ AssertsExtension(b) PROVE Unwound'
  BY <1>2, UnwoundOutside DEF CheckpointRefusesOrphan, AssertsExtension
<1> QED
  BY <1>0, <1>1, <1>2, CheckpointSteps, UnwoundBeside

(* One call of ActivateBestChain unwinds no more than MAX_REORG_DEPTH       *)
(* blocks, also when a checkpoint has connected a block by itself before    *)
(* the call is over.                                                        *)
THEOREM ReorgBoundedWithCheckpoints ==
    ASSUME Bad = {}
    PROVE  CheckpointSpec => []ReorgBounded
<1>1. CheckpointInit => Unwound
  BY DEF CheckpointInit, Init, Unwound
<1>2. CInv /\ BestInv /\ Unwound /\ [CheckpointNext]_allVars => Unwound'
  BY UnwoundCheckpointStep
<1>3. CInv /\ Unwound => ReorgBounded
  BY UnwoundBounded DEF CInv
<1>4. CheckpointSpec => []BestInv
  BY BestBesideCheckpoints DEF Untangled
<1> QED
  BY <1>1, <1>2, <1>3, <1>4, CheckpointInvariant, PTL DEF CheckpointSpec

=============================================================================
