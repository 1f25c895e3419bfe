----------------------- MODULE ChainActivationProofs -----------------------
(* Proofs about ChainActivation: what holds for every block tree, every     *)
(* choice of invalid and damaged blocks and every bound.                    *)
EXTENDS ChainActivation, TLAPS, WellFoundedInduction

(* A set of numbers has a least one: what induction over the height of a    *)
(* block comes down to, as the least counterexample.                        *)
LEMMA LeastNat ==
    ASSUME NEW T, T \subseteq Nat, T # {}
    PROVE  \E x \in T : \A y \in T : x <= y
<1>1. IsWellFoundedOn(OpToRel(<, Nat), Nat)
  BY NatLessThanWellFounded
<1>2. \A x, y \in Nat : <<y, x>> \in OpToRel(<, Nat) <=> y < x
  BY DEF OpToRel
<1>3. PICK R : R = OpToRel(<, Nat)
  OBVIOUS
<1>4. IsWellFoundedOn(R, Nat) /\ \A x, y \in Nat : <<y, x>> \in R <=> y < x
  BY <1>1, <1>2, <1>3, Zenon
<1>5. PICK x \in T : \A y \in T : ~ (<<y, x>> \in R)
  BY <1>4, WFMin
<1>6. ASSUME NEW y \in T, ~(x <= y) PROVE FALSE
  <2>1. x \in Nat /\ y \in Nat
    OBVIOUS
  <2>2. y < x
    BY <1>6, <2>1
  <2>3. <<y, x>> \in R
    BY <1>4, <2>1, <2>2
  <2> QED
    BY <1>5, <2>3
<1> QED
  BY <1>6

-----------------------------------------------------------------------------
(* Facts about the tree that the steps below use, all from its parents.     *)

(* A chain starts at Genesis, is ordered by height with one block for each, *)
(* and holds the chains of its blocks.                                      *)
Ordered(b) ==
    /\ Genesis \in Chain[b]
    /\ \A c \in Chain[b] :
          /\ Chain[c] \subseteq Chain[b]
          /\ Height[c] <= Height[b]
          /\ \A d \in Chain[b] :
                /\ Height[c] = Height[d] => c = d
                /\ Height[c] <= Height[d] => c \in Chain[d]

LEMMA OrderedChild ==
    ASSUME NEW b \in Blocks \ {Genesis}, Ordered(Parent[b])
    PROVE  Ordered(b)
<1> DEFINE p == Parent[b]
<1>1. p \in Blocks /\ Chain[b] = Chain[p] \cup {b} /\ Chain[p] \subseteq Blocks
  BY TreeAssumption
<1>2. Height[b] = Height[p] + 1 /\ \A c \in Chain[b] : Height[c] \in Nat
  BY <1>1, TreeAssumption
<1>3. \A c \in Chain[p] : Height[c] <= Height[p]
  BY DEF Ordered
<1>4. Height[p] \in Nat
  BY <1>1, TreeAssumption
<1>5. \A c \in Chain[p] : Height[c] < Height[b]
  BY <1>1, <1>2, <1>3, <1>4
<1>6. ASSUME NEW c \in Chain[b]
      PROVE  Chain[c] \subseteq Chain[b] /\ Height[c] <= Height[b]
  BY <1>1, <1>2, <1>5 DEF Ordered
<1>7. ASSUME NEW c \in Chain[b], NEW d \in Chain[b], Height[c] <= Height[d]
      PROVE  c \in Chain[d] /\ (Height[c] = Height[d] => c = d)
  <2>1. CASE d = b
    <3>1. Height[c] = Height[b] => c = b
      BY <1>1, <1>2, <1>5
    <3> QED
      BY <2>1, <3>1
  <2>2. CASE d \in Chain[p]
    <3>1. c \in Chain[p]
      <4>1. Height[d] < Height[b]
        BY <1>5, <2>2
      <4>2. Height[c] \in Nat /\ Height[d] \in Nat /\ Height[b] \in Nat
        BY <1>2, TreeAssumption
      <4>3. c # b
        BY <1>7, <4>1, <4>2
      <4> QED
        BY <1>1, <4>3
    <3> QED
      BY <1>7, <2>2, <3>1 DEF Ordered
  <2> QED
    BY <1>1, <2>1, <2>2
<1>8. \A c, d \in Chain[b] : Height[c] = Height[d] => Height[c] <= Height[d]
  BY <1>2
<1> QED
  BY <1>1, <1>6, <1>7, <1>8 DEF Ordered

LEMMA AlwaysOrdered == \A b \in Blocks : Ordered(b)
<1> DEFINE T == {n \in Nat : \E b \in Blocks : Height[b] = n /\ ~Ordered(b)}
<1> SUFFICES ASSUME NEW b \in Blocks, ~Ordered(b) PROVE FALSE
  OBVIOUS
<1>1. T \subseteq Nat /\ Height[b] \in T
  BY TreeAssumption
<1> HIDE DEF T
<1>2. PICK n \in T : \A m \in T : n <= m
  BY <1>1, LeastNat
<1>3. PICK c \in Blocks : Height[c] = n /\ ~Ordered(c)
  BY <1>2 DEF T
<1>4. c # Genesis
  BY <1>3, TreeAssumption DEF Ordered
<1>5. Parent[c] \in Blocks /\ Height[c] = Height[Parent[c]] + 1 /\ Height[Parent[c]] \in Nat
  BY <1>4, TreeAssumption
<1>6. Height[Parent[c]] \notin T
  <2>1. ~(n <= Height[Parent[c]])
    BY <1>3, <1>5
  <2> QED
    BY <1>2, <2>1
<1>7. Ordered(Parent[c])
  BY <1>5, <1>6 DEF T
<1> QED
  BY <1>3, <1>4, <1>7, OrderedChild

LEMMA Ancestors ==
    \A b \in Blocks :
        /\ Genesis \in Chain[b]
        /\ \A c \in Chain[b] :
              /\ Chain[c] \subseteq Chain[b]
              /\ Height[c] <= Height[b]
              /\ \A d \in Chain[b] :
                    /\ Height[c] = Height[d] => c = d
                    /\ Height[c] <= Height[d] => c \in Chain[d]
BY AlwaysOrdered DEF Ordered

LEMMA ChainFacts ==
    ASSUME NEW b \in Blocks
    PROVE  /\ b \in Chain[b] /\ Genesis \in Chain[b]
           /\ Chain[b] \subseteq Blocks
           /\ \A c \in Chain[b] : Chain[c] \subseteq Chain[b]
BY TreeAssumption, Ancestors

(* The block ConnectTip is given extends the active tip: the precondition   *)
(* assert(pindexNew->pprev == chainActive.Tip()) of main.cpp:2523.          *)
LEMMA ConnectingExtends ==
    ASSUME TypeOK, NEW b \in Blocks, Connecting(b)
    PROVE  /\ b # Genesis /\ Parent[b] = chainActive
           /\ Chain[b] = Chain[chainActive] \cup {b}
           /\ b \in Chain[chainMostWork]
<1>1. /\ chainMostWork \in Blocks /\ chainActive \in Blocks
      /\ b \in Chain[chainMostWork] /\ chainActive \in Chain[chainMostWork]
      /\ Height[b] = Height[chainActive] + 1
  BY DEF TypeOK, ChainTypeOK, Connecting
<1>2. b # Genesis
  BY <1>1, TreeAssumption
<1>3. Parent[b] \in Blocks /\ Parent[b] \in Chain[b]
  BY <1>2, TreeAssumption, ChainFacts
<1>4. Parent[b] \in Chain[chainMostWork] /\ Height[Parent[b]] = Height[chainActive]
  <2>1. Parent[b] \in Chain[chainMostWork]
    BY <1>1, <1>3, ChainFacts
  <2>2. Height[b] = Height[Parent[b]] + 1 /\ Height[b] \in Nat
        /\ Height[Parent[b]] \in Nat /\ Height[chainActive] \in Nat
    BY <1>1, <1>2, <1>3, TreeAssumption
  <2>3. QED
    BY <1>1, <2>1, <2>2
<1>5. Parent[b] = chainActive
  BY <1>1, <1>4, Ancestors
<1>6. QED
  BY <1>1, <1>2, <1>5, TreeAssumption

-----------------------------------------------------------------------------
(* Type correctness.  Each step proves the parts of TypeOK it disturbs; the *)
(* frame lemma carries the others over.                                     *)

LEMMA TypeInit == Init => TypeOK
BY TreeAssumption, ParameterAssumption
   DEF Init, TypeOK, IndexTypeOK, StatusTypeOK, ChainTypeOK, CallTypeOK, PcTypeOK,
       DbTypeOK, BoundTypeOK

LEMMA TypeFrame ==
    ASSUME TypeOK
    PROVE  /\ UNCHANGED indexVars => IndexTypeOK'
           /\ UNCHANGED statusVars => StatusTypeOK'
           /\ UNCHANGED chainVars => ChainTypeOK'
           /\ UNCHANGED callVars => CallTypeOK'
           /\ UNCHANGED pc => PcTypeOK'
           /\ UNCHANGED dbVars => DbTypeOK'
           /\ UNCHANGED boundVars => BoundTypeOK'
BY DEF TypeOK, IndexTypeOK, StatusTypeOK, ChainTypeOK, CallTypeOK, PcTypeOK,
       DbTypeOK, BoundTypeOK, indexVars, statusVars, chainVars, callVars, dbVars,
       boundVars

LEMMA TypeAdd ==
    ASSUME TypeOK, NEW b \in Blocks, AddToBlockIndex(b),
           UNCHANGED <<mapOrphanBlocks, vWorkQueue, ret, boundVars>>
    PROVE  TypeOK'
<1>1. IndexTypeOK'
  BY DEF TypeOK, IndexTypeOK, AddToBlockIndex
<1>2. StatusTypeOK'
  BY DEF TypeOK, StatusTypeOK, AddToBlockIndex
<1>3. CallTypeOK'
  BY DEF TypeOK, CallTypeOK, ChainTypeOK, AddToBlockIndex
<1>4. PcTypeOK' /\ DbTypeOK'
  BY DEF TypeOK, PcTypeOK, DbTypeOK, AddToBlockIndex
<1>5. QED
  BY <1>1, <1>2, <1>3, <1>4, TypeFrame DEF TypeOK, AddToBlockIndex

LEMMA TypeStep == TypeOK /\ [Next]_vars => TypeOK'
<1> SUFFICES ASSUME TypeOK, [Next]_vars
             PROVE  TypeOK'
  OBVIOUS
<1>1. ASSUME NEW b \in Blocks \ {Genesis}, ReceiveBlock(b)
      PROVE  TypeOK'
  BY <1>1, TypeAdd DEF ReceiveBlock
<1>2. ASSUME NEW b \in Blocks \ {Genesis}, ReceiveOrphan(b)
      PROVE  TypeOK'
  <2>1. \A kept \in PruneOrphanBlocks : kept \subseteq mapOrphanBlocks
    BY DEF PruneOrphanBlocks
  <2>2. CallTypeOK'
    BY <1>2, <2>1 DEF TypeOK, CallTypeOK, ReceiveOrphan
  <2>3. QED
    BY <1>2, <2>2, TypeFrame DEF TypeOK, ReceiveOrphan
<1>3. ASSUME NEW b \in Blocks, AcceptOrphan(b)
      PROVE  TypeOK'
  BY <1>3, TypeAdd DEF AcceptOrphan
<1>4. ASSUME NEW b \in Blocks, RefuseOrphan(b)
      PROVE  TypeOK'
  <2>1. CallTypeOK'
    BY <1>4 DEF TypeOK, CallTypeOK, RefuseOrphan
  <2>2. QED
    BY <1>4, <2>1, TypeFrame DEF TypeOK, RefuseOrphan
<1>5. CASE NextInWorkQueue
  <2>1. CallTypeOK' /\ PcTypeOK'
    BY <1>5 DEF TypeOK, CallTypeOK, PcTypeOK, NextInWorkQueue
  <2>2. QED
    BY <1>5, <2>1, TypeFrame DEF TypeOK, NextInWorkQueue
<1>6. CASE FindMostWorkChain
  <2>1. StatusTypeOK' /\ UNCHANGED indexVars /\ UNCHANGED callVars
        /\ UNCHANGED dbVars /\ UNCHANGED boundVars
    BY <1>6 DEF TypeOK, StatusTypeOK, FindMostWorkChain, Candidates, FailedChildren
  <2>2. \A back \in BackedTo : back \in Blocks \cup {NoBlock}
    BY ChainFacts DEF TypeOK, ChainTypeOK, BackedTo
  <2>3. \A best \in Best : best \in Blocks
    BY DEF TypeOK, StatusTypeOK, Best, Viable, Candidates
  <2>4. ChainTypeOK' /\ PcTypeOK'
    BY <1>6, <2>2, <2>3 DEF TypeOK, ChainTypeOK, PcTypeOK, FindMostWorkChain
  <2>5. QED
    BY <2>1, <2>4, TypeFrame DEF TypeOK
<1>7. CASE ReorgGate
  <2>1. CallTypeOK' /\ PcTypeOK'
    BY <1>7 DEF TypeOK, CallTypeOK, PcTypeOK, ReorgGate
  <2>2. QED
    BY <1>7, <2>1, TypeFrame DEF TypeOK, ReorgGate
<1>8. CASE DisconnectTip
  <2>1. chainActive # Genesis
    BY <1>8, ChainFacts DEF TypeOK, ChainTypeOK, DisconnectTip, Disconnecting
  <2>2. Parent[chainActive] \in Blocks
    BY <2>1, TreeAssumption DEF TypeOK, ChainTypeOK
  <2>3. ChainTypeOK' /\ CallTypeOK' /\ PcTypeOK'
    BY <1>8, <2>2
       DEF TypeOK, ChainTypeOK, CallTypeOK, PcTypeOK, DisconnectTip, WriteChainState
  <2>4. DbTypeOK' /\ BoundTypeOK'
    BY <1>8, <2>2, ParameterAssumption
       DEF TypeOK, DbTypeOK, BoundTypeOK, DisconnectTip, WriteChainState
  <2>5. QED
    BY <1>8, <2>3, <2>4, TypeFrame DEF TypeOK, DisconnectTip
<1>9. ASSUME NEW b \in Blocks, ConnectTip(b)
      PROVE  TypeOK'
  <2>1. StatusTypeOK'
    BY <1>9 DEF TypeOK, StatusTypeOK, ConnectTip
  <2>2. ChainTypeOK' /\ CallTypeOK' /\ PcTypeOK'
    BY <1>9
       DEF TypeOK, ChainTypeOK, CallTypeOK, PcTypeOK, ConnectTip, WriteChainState
  <2>3. DbTypeOK' /\ BoundTypeOK'
    BY <1>9, ParameterAssumption
       DEF TypeOK, DbTypeOK, BoundTypeOK, ConnectTip, ConnectRecord, WriteChainState
  <2>4. QED
    BY <1>9, <2>1, <2>2, <2>3, TypeFrame DEF TypeOK, ConnectTip
<1>10. ASSUME NEW b \in Blocks, InvalidBlockFound(b)
       PROVE  TypeOK'
  <2>1. StatusTypeOK' /\ PcTypeOK' /\ DbTypeOK'
    BY <1>10 DEF TypeOK, StatusTypeOK, PcTypeOK, DbTypeOK, InvalidBlockFound
  <2>2. QED
    BY <1>10, <2>1, TypeFrame DEF TypeOK, InvalidBlockFound
<1>11. CASE ReadBlockFails
  <2>1. CallTypeOK' /\ PcTypeOK'
    BY <1>11 DEF TypeOK, CallTypeOK, PcTypeOK, ReadBlockFails
  <2>2. BoundTypeOK'
    BY <1>11, ParameterAssumption DEF TypeOK, BoundTypeOK, ReadBlockFails
  <2>3. QED
    BY <1>11, <2>1, <2>2, TypeFrame DEF TypeOK, ReadBlockFails
<1>12. CASE AssertFails
  <2>1. PcTypeOK'
    BY <1>12 DEF PcTypeOK, AssertFails
  <2>2. QED
    BY <1>12, <2>1, TypeFrame DEF TypeOK, AssertFails
<1>13. CASE ActivationComplete
  <2>1. CallTypeOK' /\ PcTypeOK'
    BY <1>13 DEF TypeOK, CallTypeOK, PcTypeOK, ActivationComplete
  <2>2. QED
    BY <1>13, <2>1, TypeFrame DEF TypeOK, ActivationComplete
<1>14. CASE Return
  <2>1. vWorkQueue \in Seq(Blocks) /\ cur \in Blocks \cup {NoBlock}
    BY DEF TypeOK, CallTypeOK
  <2>2. cur # NoBlock => Append(vWorkQueue, cur) \in Seq(Blocks) /\ <<cur>> \in Seq(Blocks)
    BY <2>1
  <2>3. vWorkQueue' \in {vWorkQueue, Append(vWorkQueue, cur), <<cur>>}
        /\ (cur = NoBlock => vWorkQueue' = vWorkQueue)
    BY <1>14 DEF Return, Requeue, AcceptedHash
  <2>4. CallTypeOK'
    <3>1. vWorkQueue' \in Seq(Blocks)
      BY <2>1, <2>2, <2>3
    <3>2. mapOrphanBlocks' \subseteq mapOrphanBlocks
      BY <1>14 DEF Return
    <3>3. QED
      BY <1>14, <3>1, <3>2 DEF TypeOK, CallTypeOK, Return
  <2>5. PcTypeOK'
    BY <1>14 DEF PcTypeOK, Return
  <2>6. QED
    BY <1>14, <2>4, <2>5, TypeFrame DEF TypeOK, Return
<1>15. CASE Shutdown
  <2>1. PcTypeOK' /\ DbTypeOK'
    BY <1>15 DEF TypeOK, ChainTypeOK, PcTypeOK, DbTypeOK, Shutdown
  <2>2. BoundTypeOK'
    BY <1>15, ParameterAssumption DEF TypeOK, BoundTypeOK, Shutdown
  <2>3. QED
    BY <1>15, <2>1, <2>2, TypeFrame DEF TypeOK, Shutdown
<1>16. CASE Crash
  <2>1. PcTypeOK'
    BY <1>16 DEF PcTypeOK, Crash
  <2>2. BoundTypeOK'
    BY <1>16, ParameterAssumption DEF TypeOK, BoundTypeOK, Crash
  <2>3. QED
    BY <1>16, <2>1, <2>2, TypeFrame DEF TypeOK, Crash
<1>17. CASE LoadBlockIndexDB
  <2>1. IndexTypeOK' /\ StatusTypeOK'
    BY <1>17 DEF TypeOK, DbTypeOK, IndexTypeOK, StatusTypeOK, LoadBlockIndexDB,
                 LoadedCandidates
  <2>2. ChainTypeOK' /\ CallTypeOK' /\ PcTypeOK'
    BY <1>17 DEF TypeOK, DbTypeOK, ChainTypeOK, CallTypeOK, PcTypeOK,
                 LoadBlockIndexDB, LoadedTip
  <2>3. QED
    BY <1>17, <2>1, <2>2, TypeFrame DEF TypeOK, LoadBlockIndexDB
<1>18. CASE UNCHANGED vars
  BY <1>18, TypeFrame DEF TypeOK, vars
<1>19. QED
  BY <1>1, <1>2, <1>3, <1>4, <1>5, <1>6, <1>7, <1>8, <1>9, <1>10, <1>11, <1>12,
     <1>13, <1>14, <1>15, <1>16, <1>17, <1>18 DEF Next, Step

(* Every variable keeps its type. *)
THEOREM TypeCorrect == Spec => []TypeOK
BY TypeInit, TypeStep, PTL DEF Spec

-----------------------------------------------------------------------------
(* Safety: the inductive invariant.                                        *)

(* A block the chain state may stand at: with every ancestor it is indexed, *)
(* validated, and breaks no rule.                                           *)
Validated(t) ==
    /\ Chain[t] \subseteq mapBlockIndex
    /\ Chain[t] \subseteq scripts
    /\ Chain[t] \cap Bad = {}

TipsValidated == Validated(chainActive) /\ Validated(coinsBest) /\ Validated(dbCoins)

(* Block records are written as the index changes, so the database holds    *)
(* what the index holds; only the failed flags of descendants are not       *)
(* written.                                                                 *)
IndexRecorded == dbIndex = mapBlockIndex /\ dbScripts = scripts

IndexClosed == \A b \in mapBlockIndex : Chain[b] \subseteq mapBlockIndex

HandlesIndexed ==
    /\ chainMostWork # NoBlock => chainMostWork \in mapBlockIndex
    /\ cur # NoBlock => cur \in mapBlockIndex
    /\ \A i \in 1 .. Len(vWorkQueue) : vWorkQueue[i] \in mapBlockIndex

FailedIndexed == failed \cup dbFailed \subseteq mapBlockIndex

IInv ==
    /\ TypeOK
    /\ TipsValidated /\ IndexRecorded /\ IndexClosed /\ HandlesIndexed
    /\ FailedIndexed /\ FailedIsJustified /\ CandidatesExact

LEMMA IInvInit == Init => IInv
<1> SUFFICES ASSUME Init PROVE IInv
  OBVIOUS
<1>1. Chain[Genesis] = {Genesis} /\ Genesis \notin Bad
  BY TreeAssumption, ParameterAssumption
<1>2. QED
  BY <1>1, TypeInit
     DEF Init, IInv, TipsValidated, Validated, IndexRecorded, IndexClosed,
         HandlesIndexed, FailedIndexed, FailedIsJustified, CandidatesExact, Alive

(* A step that leaves a part of the state alone keeps what is said of it.   *)
LEMMA InvFrame ==
    ASSUME IInv
    PROVE  /\ UNCHANGED <<indexVars, statusVars, chainVars, dbVars>>
                => /\ TipsValidated' /\ IndexRecorded' /\ IndexClosed'
                   /\ FailedIndexed' /\ FailedIsJustified'
           /\ UNCHANGED <<indexVars, statusVars>> /\ (Alive' => Alive)
                => CandidatesExact'
           /\ UNCHANGED <<indexVars, chainVars, vWorkQueue, cur>> => HandlesIndexed'
BY DEF IInv, TipsValidated, Validated, IndexRecorded, IndexClosed, HandlesIndexed,
       FailedIndexed, FailedIsJustified, CandidatesExact, Alive, indexVars, statusVars, chainVars,
       dbVars

LEMMA InvAdd ==
    ASSUME IInv, NEW b \in Blocks, AddToBlockIndex(b), Alive,
           b # Genesis, b \notin mapBlockIndex, Parent[b] \in mapBlockIndex,
           UNCHANGED <<mapOrphanBlocks, vWorkQueue, ret, boundVars>>
    PROVE  IInv'
<1>1. TypeOK'
  BY TypeAdd DEF IInv
<1>2. /\ mapBlockIndex' = mapBlockIndex \cup {b} /\ dbIndex' = dbIndex \cup {b}
      /\ setBlockIndexValid' = setBlockIndexValid \cup {b} /\ cur' = b
      /\ UNCHANGED <<failed, scripts, chainActive, chainMostWork, coinsBest,
                     dbFailed, dbScripts, dbCoins, vWorkQueue>>
  BY DEF AddToBlockIndex, chainVars
<1>3. TipsValidated' /\ IndexRecorded' /\ FailedIndexed' /\ FailedIsJustified'
  BY <1>2 DEF IInv, TipsValidated, Validated, IndexRecorded, FailedIndexed,
              FailedIsJustified
<1>4. IndexClosed'
  <2>1. Chain[b] = Chain[Parent[b]] \cup {b}
    BY TreeAssumption
  <2>2. Chain[Parent[b]] \subseteq mapBlockIndex
    BY DEF IInv, IndexClosed
  <2>3. QED
    BY <1>2, <2>1, <2>2 DEF IInv, IndexClosed
<1>5. HandlesIndexed'
  BY <1>2 DEF IInv, HandlesIndexed
<1>6. b \notin failed
  BY DEF IInv, FailedIndexed
<1>7. CandidatesExact'
  BY <1>2, <1>6 DEF IInv, CandidatesExact, Alive
<1>8. QED
  BY <1>1, <1>3, <1>4, <1>5, <1>7 DEF IInv

LEMMA ValidatedParent ==
    ASSUME TypeOK, NEW t \in Blocks, t # Genesis, Validated(t)
    PROVE  Parent[t] \in Blocks /\ Validated(Parent[t])
<1>1. Parent[t] \in Blocks /\ Chain[t] = Chain[Parent[t]] \cup {t}
  BY TreeAssumption
<1>2. QED
  BY <1>1 DEF Validated

(* The blocks FindMostWorkChain marks descend from a block marked before.   *)
LEMMA FailedChildrenJustified ==
    ASSUME IInv, Alive, NEW b \in FailedChildren
    PROVE  b \in mapBlockIndex /\ \E f \in failed : f \in Chain[b]
<1>1. PICK c \in PassedOver :
         b \in Chain[c] /\ \A f \in FailedOnPath(c) : Height[f] < Height[b]
  BY DEF FailedChildren
<1>2. c \in setBlockIndexValid /\ FailedOnPath(c) # {}
  BY <1>1 DEF PassedOver, Candidates
<1>3. c \in mapBlockIndex /\ c \in Blocks
  BY <1>2 DEF IInv, CandidatesExact, TypeOK, IndexTypeOK
<1>4. b \in mapBlockIndex
  BY <1>1, <1>3 DEF IInv, IndexClosed
<1>5. PICK f \in FailedOnPath(c) : TRUE
  BY <1>2
<1>6. f \in failed /\ f \in Chain[c] /\ Height[f] < Height[b]
  BY <1>1, <1>5 DEF FailedOnPath
<1>7. Height[f] <= Height[b]
  <2>1. f \in Blocks /\ b \in Blocks
    BY <1>1, <1>3, <1>6, ChainFacts
  <2>2. Height[f] \in Nat /\ Height[b] \in Nat
    BY <2>1, TreeAssumption
  <2>3. QED
    BY <1>6, <2>2
<1>8. f \in Chain[b]
  BY <1>1, <1>3, <1>6, <1>7, Ancestors
<1>9. QED
  BY <1>4, <1>6, <1>8

LEMMA FindKeepsIInv ==
    ASSUME IInv, TypeOK', FindMostWorkChain
    PROVE  IInv'
<1>1. Alive /\ UNCHANGED <<mapBlockIndex, scripts, chainActive, coinsBest, cur,
                           vWorkQueue, dbIndex, dbFailed, dbScripts, dbCoins>>
  BY DEF FindMostWorkChain, Alive, indexVars, callVars, dbVars
<1>2. failed' = failed \cup FailedChildren
      /\ setBlockIndexValid' = Candidates \ FailedChildren
  BY DEF FindMostWorkChain
<1>3. TipsValidated' /\ IndexRecorded' /\ IndexClosed'
  BY <1>1 DEF IInv, TipsValidated, Validated, IndexRecorded, IndexClosed
<1>4. \A b \in FailedChildren : b \in mapBlockIndex /\ \E f \in failed : f \in Chain[b]
  BY <1>1, FailedChildrenJustified
<1>5. FailedIndexed'
  BY <1>1, <1>2, <1>4 DEF IInv, FailedIndexed
<1>6. FailedIsJustified'
  <2>1. ASSUME NEW b \in FailedChildren PROVE Chain[b] \cap Bad # {}
    <3>1. PICK f \in failed : f \in Chain[b]
      BY <1>4
    <3>2. b \in Blocks
      BY DEF FailedChildren
    <3>3. Chain[f] \subseteq Chain[b] /\ Chain[f] \cap Bad # {}
      BY <3>1, <3>2, ChainFacts DEF IInv, FailedIsJustified
    <3>4. QED
      BY <3>3
  <2>2. QED
    BY <1>1, <1>2, <2>1 DEF IInv, FailedIsJustified
<1>7. BackedOver \subseteq failed
  <2>1. ASSUME NEW b \in BackedOver PROVE b \in failed
    <3>1. chainMostWork # NoBlock /\ b \in Chain[chainMostWork]
          /\ \A c \in Chain[chainMostWork] : Height[c] >= Height[b] => c \in failed
      BY DEF BackedOver
    <3>2. chainMostWork \in Blocks
      BY <3>1 DEF IInv, TypeOK, ChainTypeOK
    <3>3. b \in Blocks
      BY <3>1, <3>2, ChainFacts
    <3>4. Height[b] \in Nat
      BY <3>3, TreeAssumption
    <3>5. QED
      BY <3>1, <3>4
  <2>2. QED
    BY <2>1
<1>8. CandidatesExact'
  BY <1>1, <1>2, <1>4, <1>7 DEF IInv, CandidatesExact, Candidates
<1>9. HandlesIndexed'
  <2>1. \A back \in BackedTo : back # NoBlock => back \in mapBlockIndex
    BY DEF IInv, HandlesIndexed, IndexClosed, BackedTo
  <2>2. \A best \in Best : best \in mapBlockIndex
    BY <1>1 DEF IInv, CandidatesExact, Best, Viable, Candidates
  <2>3. chainMostWork' # NoBlock => chainMostWork' \in mapBlockIndex
    BY <2>1, <2>2 DEF FindMostWorkChain
  <2>4. QED
    BY <1>1, <2>3 DEF IInv, HandlesIndexed
<1>10. QED
  BY <1>3, <1>5, <1>6, <1>8, <1>9 DEF IInv

LEMMA ConnectKeepsIInv ==
    ASSUME IInv, TypeOK', NEW b \in Blocks, ConnectTip(b)
    PROVE  IInv'
<1>1. Connecting(b) /\ b \notin Bad /\ Alive /\ chainMostWork # NoBlock
  BY DEF ConnectTip, Connecting, Alive, IInv, TypeOK, ChainTypeOK
<1>2. Chain[b] = Chain[chainActive] \cup {b} /\ b \in Chain[chainMostWork]
  BY <1>1, ConnectingExtends DEF IInv
<1>3. b \in mapBlockIndex
  BY <1>1, <1>2 DEF IInv, HandlesIndexed, IndexClosed
<1>4. /\ UNCHANGED <<mapBlockIndex, failed, setBlockIndexValid, chainMostWork, cur,
                     vWorkQueue, dbIndex>>
      /\ scripts' = scripts \cup {b} /\ dbScripts' = scripts'
      /\ dbFailed' \subseteq dbFailed \cup (failed \cap {b})
      /\ coinsBest' = b /\ chainActive' \in {b, chainActive}
      /\ dbCoins' \in {b, dbCoins}
  BY DEF ConnectTip, WriteChainState, ConnectRecord, indexVars, IInv, IndexRecorded
<1>5. TipsValidated'
  <2>1. Chain[b] \subseteq mapBlockIndex /\ Chain[b] \subseteq scripts \cup {b}
        /\ Chain[b] \cap Bad = {}
    BY <1>1, <1>2, <1>3 DEF IInv, TipsValidated, Validated
  <2>2. QED
    BY <1>4, <2>1 DEF IInv, TipsValidated, Validated
<1>6. IndexRecorded' /\ IndexClosed' /\ HandlesIndexed'
  BY <1>4 DEF IInv, IndexRecorded, IndexClosed, HandlesIndexed
<1>7. FailedIndexed' /\ FailedIsJustified'
  BY <1>4 DEF IInv, FailedIndexed, FailedIsJustified
<1>8. CandidatesExact'
  BY <1>1, <1>4 DEF IInv, CandidatesExact
<1>9. QED
  BY <1>5, <1>6, <1>7, <1>8 DEF IInv

LEMMA DisconnectKeepsIInv ==
    ASSUME IInv, TypeOK', DisconnectTip
    PROVE  IInv'
<1>1. chainActive \in Blocks /\ chainActive # Genesis /\ Alive
  BY ChainFacts DEF IInv, TypeOK, ChainTypeOK, DisconnectTip, Disconnecting, Alive
<1>2. Validated(Parent[chainActive])
  BY <1>1, ValidatedParent DEF IInv, TipsValidated
<1>3. /\ UNCHANGED <<mapBlockIndex, failed, scripts, setBlockIndexValid,
                     chainMostWork, cur, vWorkQueue, dbIndex, dbFailed, dbScripts>>
      /\ coinsBest' = Parent[chainActive]
      /\ chainActive' \in {Parent[chainActive], chainActive}
      /\ dbCoins' \in {Parent[chainActive], dbCoins}
  BY DEF DisconnectTip, WriteChainState, indexVars, statusVars
<1>4. TipsValidated'
  BY <1>2, <1>3 DEF IInv, TipsValidated, Validated
<1>5. IndexRecorded' /\ IndexClosed' /\ HandlesIndexed'
  BY <1>3 DEF IInv, IndexRecorded, IndexClosed, HandlesIndexed
<1>6. FailedIndexed' /\ FailedIsJustified' /\ CandidatesExact'
  BY <1>1, <1>3 DEF IInv, FailedIndexed, FailedIsJustified, CandidatesExact
<1>7. QED
  BY <1>4, <1>5, <1>6 DEF IInv

LEMMA InvalidKeepsIInv ==
    ASSUME IInv, TypeOK', NEW b \in Blocks, InvalidBlockFound(b)
    PROVE  IInv'
<1>1. Connecting(b) /\ Alive /\ chainMostWork # NoBlock
  BY DEF InvalidBlockFound, Connecting, Alive, IInv, TypeOK, ChainTypeOK
<1>2. b \in mapBlockIndex /\ b \in Chain[b]
  BY <1>1, ConnectingExtends, ChainFacts DEF IInv, HandlesIndexed, IndexClosed
<1>3. /\ UNCHANGED <<mapBlockIndex, scripts, chainActive, coinsBest, chainMostWork,
                     cur, vWorkQueue, dbIndex, dbScripts, dbCoins>>
      /\ \/ UNCHANGED <<failed, dbFailed, setBlockIndexValid>>
         \/ /\ b \in Bad
            /\ failed' = failed \cup {b} /\ dbFailed' = dbFailed \cup {b}
            /\ setBlockIndexValid' = setBlockIndexValid \ {b}
  BY DEF InvalidBlockFound, CorruptionPossible, indexVars, chainVars, callVars
<1>4. TipsValidated' /\ IndexRecorded' /\ IndexClosed' /\ HandlesIndexed'
  BY <1>3 DEF IInv, TipsValidated, Validated, IndexRecorded, IndexClosed, HandlesIndexed
<1>5. FailedIndexed' /\ FailedIsJustified' /\ CandidatesExact'
  BY <1>1, <1>2, <1>3 DEF IInv, FailedIndexed, FailedIsJustified, CandidatesExact
<1>6. QED
  BY <1>4, <1>5 DEF IInv

(* A reload finds everything the index held.                                *)
LEMMA LoadKeepsIInv ==
    ASSUME IInv, TypeOK', LoadBlockIndexDB
    PROVE  IInv'
<1>1. /\ mapBlockIndex' = mapBlockIndex /\ scripts' = scripts /\ failed' = dbFailed
      /\ setBlockIndexValid' = mapBlockIndex \ dbFailed
      /\ chainActive' = dbCoins /\ coinsBest' = dbCoins /\ chainMostWork' = NoBlock
      /\ vWorkQueue' = <<>> /\ cur' = NoBlock
      /\ UNCHANGED <<dbIndex, dbFailed, dbScripts, dbCoins>>
  BY DEF LoadBlockIndexDB, LoadedCandidates, LoadedTip, dbVars, IInv, IndexRecorded
<1>2. TipsValidated' /\ IndexRecorded' /\ IndexClosed' /\ HandlesIndexed'
  BY <1>1 DEF IInv, TipsValidated, Validated, IndexRecorded, IndexClosed, HandlesIndexed
<1>3. FailedIndexed' /\ FailedIsJustified' /\ CandidatesExact'
  BY <1>1 DEF IInv, FailedIndexed, FailedIsJustified, CandidatesExact
<1>4. QED
  BY <1>2, <1>3 DEF IInv

(* Return hands cur, and nothing else, to the work queue.                   *)
LEMMA ReturnKeepsIInv ==
    ASSUME IInv, TypeOK', Return
    PROVE  IInv'
<1>1. UNCHANGED <<indexVars, statusVars, chainVars, dbVars>> /\ cur' = NoBlock /\ Alive
  BY DEF Return, Alive
<1>2. vWorkQueue' \in {vWorkQueue, Append(vWorkQueue, cur), <<cur>>}
      /\ (cur = NoBlock => vWorkQueue' = vWorkQueue)
  BY DEF Return, Requeue, AcceptedHash
<1>3. vWorkQueue \in Seq(Blocks)
  BY DEF IInv, TypeOK, CallTypeOK
<1>4. \A i \in 1 .. Len(vWorkQueue') : vWorkQueue'[i] \in mapBlockIndex
  <2>1. CASE vWorkQueue' = vWorkQueue
    BY <2>1 DEF IInv, HandlesIndexed
  <2>2. CASE cur # NoBlock /\ vWorkQueue' = Append(vWorkQueue, cur)
    BY <1>3, <2>2 DEF IInv, HandlesIndexed
  <2>3. CASE cur # NoBlock /\ vWorkQueue' = <<cur>>
    BY <2>3 DEF IInv, HandlesIndexed
  <2>4. QED
    BY <1>2, <2>1, <2>2, <2>3
<1>5. HandlesIndexed'
  BY <1>1, <1>4 DEF IInv, HandlesIndexed, indexVars, chainVars
<1>6. QED
  BY <1>1, <1>5, InvFrame DEF IInv

LEMMA IInvStep == IInv /\ [Next]_vars => IInv'
<1> SUFFICES ASSUME IInv, [Next]_vars
             PROVE  IInv'
  OBVIOUS
<1> USE TypeStep DEF IInv
<1>0. TypeOK'
  OBVIOUS
<1>1. ASSUME NEW b \in Blocks \ {Genesis}, ReceiveBlock(b)
      PROVE  IInv'
  BY <1>1, InvAdd DEF ReceiveBlock, Alive
<1>2. ASSUME NEW b \in Blocks \ {Genesis}, ReceiveOrphan(b)
      PROVE  IInv'
  BY <1>0, <1>2, InvFrame DEF ReceiveOrphan, Alive
<1>3. ASSUME NEW b \in Blocks, AcceptOrphan(b)
      PROVE  IInv'
  <2>1. b # Genesis /\ Alive /\ Parent[b] \in mapBlockIndex
    <3>1. vWorkQueue \in Seq(Blocks) /\ vWorkQueue # <<>> /\ Parent[b] = Head(vWorkQueue)
      BY <1>3 DEF TypeOK, CallTypeOK, AcceptOrphan
    <3>2. Head(vWorkQueue) = vWorkQueue[1] /\ 1 \in 1 .. Len(vWorkQueue)
      BY <3>1
    <3>3. QED
      BY <1>3, <3>1, <3>2 DEF TypeOK, CallTypeOK, AcceptOrphan, HandlesIndexed, Alive
  <2>2. QED
    BY <1>3, <2>1, InvAdd DEF AcceptOrphan
<1>4. ASSUME NEW b \in Blocks, RefuseOrphan(b)
      PROVE  IInv'
  BY <1>0, <1>4, InvFrame DEF RefuseOrphan, Alive
<1>5. CASE NextInWorkQueue
  <2>1. UNCHANGED <<indexVars, statusVars, chainVars, dbVars, cur>> /\ Alive
    BY <1>5 DEF NextInWorkQueue, Alive
  <2>2. vWorkQueue \in Seq(Blocks)
    BY DEF TypeOK, CallTypeOK
  <2>3. \A i \in 1 .. Len(vWorkQueue') : vWorkQueue'[i] \in mapBlockIndex
    <3>1. CASE vWorkQueue' = vWorkQueue
      BY <3>1 DEF HandlesIndexed
    <3>2. CASE vWorkQueue # <<>> /\ vWorkQueue' = Tail(vWorkQueue)
      <4>1. \A i \in 1 .. Len(Tail(vWorkQueue)) :
               /\ Tail(vWorkQueue)[i] = vWorkQueue[i + 1]
               /\ i + 1 \in 1 .. Len(vWorkQueue)
        BY <2>2, <3>2
      <4>2. QED
        BY <3>2, <4>1 DEF HandlesIndexed
    <3>3. QED
      BY <1>5, <3>1, <3>2 DEF NextInWorkQueue
  <2>4. HandlesIndexed'
    BY <2>1, <2>3 DEF HandlesIndexed, indexVars, chainVars
  <2>5. QED
    BY <1>0, <2>1, <2>4, InvFrame
<1>6. CASE FindMostWorkChain
  BY <1>0, <1>6, FindKeepsIInv
<1>7. CASE ReorgGate
  BY <1>0, <1>7, InvFrame DEF ReorgGate, Alive
<1>8. CASE DisconnectTip
  BY <1>0, <1>8, DisconnectKeepsIInv
<1>9. ASSUME NEW b \in Blocks, ConnectTip(b)
      PROVE  IInv'
  BY <1>0, <1>9, ConnectKeepsIInv
<1>10. ASSUME NEW b \in Blocks, InvalidBlockFound(b)
       PROVE  IInv'
  BY <1>0, <1>10, InvalidKeepsIInv
<1>11. CASE ReadBlockFails
  BY <1>0, <1>11, InvFrame
     DEF ReadBlockFails, Disconnecting, Connecting, Alive
<1>12. CASE AssertFails
  BY <1>0, <1>12, InvFrame DEF AssertFails, Alive, callVars
<1>13. CASE ActivationComplete
  BY <1>0, <1>13, InvFrame DEF ActivationComplete, Alive
<1>14. CASE Return
  BY <1>0, <1>14, ReturnKeepsIInv
<1>15. CASE Shutdown
  <2>1. UNCHANGED <<indexVars, statusVars, chainVars, callVars, dbIndex, dbFailed,
                    dbScripts>>
        /\ dbCoins' = coinsBest /\ ~Alive'
    BY <1>15 DEF Shutdown, Alive
  <2>2. TipsValidated' /\ IndexRecorded' /\ IndexClosed' /\ FailedIndexed'
        /\ FailedIsJustified'
    BY <2>1 DEF TipsValidated, Validated, IndexRecorded, IndexClosed, FailedIndexed,
                FailedIsJustified, indexVars, statusVars, chainVars
  <2>3. HandlesIndexed' /\ CandidatesExact'
    BY <2>1, InvFrame DEF callVars, CandidatesExact
  <2>4. QED
    BY <1>0, <2>2, <2>3
<1>16. CASE Crash
  BY <1>0, <1>16, InvFrame DEF Crash, Alive, callVars
<1>17. CASE LoadBlockIndexDB
  BY <1>0, <1>17, LoadKeepsIInv
<1>18. CASE UNCHANGED vars
  BY <1>0, <1>18, InvFrame DEF vars, callVars, Alive
<1>19. QED
  BY <1>1, <1>2, <1>3, <1>4, <1>5, <1>6, <1>7, <1>8, <1>9, <1>10, <1>11, <1>12,
     <1>13, <1>14, <1>15, <1>16, <1>17, <1>18 DEF Next, Step

-----------------------------------------------------------------------------
(* The invariant holds in every reachable state.                            *)
THEOREM InvariantHolds == Spec => []IInv
BY IInvInit, IInvStep, PTL DEF Spec

(* setBlockIndexValid is the indexed blocks without a failed flag, for any  *)
(* tree: no usable block is ever lost to the node and no failed one can     *)
(* stall FindMostWorkChain.                                                 *)
THEOREM CandidatesAlwaysExact == Spec => []CandidatesExact
<1>1. IInv => CandidatesExact
  BY DEF IInv
<1>2. QED
  BY <1>1, InvariantHolds, PTL

(* A block is condemned only on account of a rule it or an ancestor breaks. *)
THEOREM OnlyTheInvalidFail == Spec => []FailedIsJustified
<1>1. IInv => FailedIsJustified
  BY DEF IInv
<1>2. QED
  BY <1>1, InvariantHolds, PTL

(* A validated chain carries no failed flag. *)
LEMMA ValidatedNotFailed ==
    ASSUME IInv, NEW t \in Blocks, Validated(t)
    PROVE  Chain[t] \cap (failed \cup dbFailed) = {}
<1>1. ASSUME NEW f \in Chain[t], f \in failed \cup dbFailed PROVE FALSE
  BY <1>1, ChainFacts DEF IInv, FailedIsJustified, Validated
<1>2. QED
  BY <1>1

(* The active chain is validated and not marked failed, also half-way       *)
(* through a reorganisation and after a reload.                             *)
THEOREM ActiveChainAlwaysValid == Spec => []ActiveChainValid
<1>1. IInv => ActiveChainValid
  BY ValidatedNotFailed, ChainFacts
     DEF IInv, TipsValidated, Validated, TypeOK, ChainTypeOK, ActiveChainValid
<1>2. QED
  BY <1>1, InvariantHolds, PTL

(* The databases can be loaded whenever the process dies.                   *)
THEOREM AlwaysRecoverable == Spec => []Recoverable
<1>1. IInv => Recoverable
  BY ValidatedNotFailed
     DEF IInv, TipsValidated, Validated, TypeOK, DbTypeOK, IndexRecorded, Recoverable
<1>2. QED
  BY <1>1, InvariantHolds, PTL

-----------------------------------------------------------------------------
(* The best chain: what FindMostWorkChain chooses, and what is left of it   *)
(* while the tip moves.                                                     *)

Clean(b) == Chain[b] \cap failed = {}

(* No indexed block with a clean chain is preferred to chainMostWork, which *)
(* may itself lie above a block found invalid meanwhile.                    *)
BestSoFar ==
    pc \in {"gate", "step"} =>
        /\ chainMostWork # NoBlock
        /\ \A b \in mapBlockIndex : Clean(b) => ~Worse(chainMostWork, b)

(* Blocks are disconnected only for a clean chain: that a block of          *)
(* chainMostWork is invalid is found with the tip right below it.           *)
PathKept ==
    chainMostWork # NoBlock => Clean(chainMostWork) \/ chainActive \in Chain[chainMostWork]

(* With the coins view off the tip no call succeeds: there is a better      *)
(* block, so that the tip is not where an activation ends.                  *)
OffTip ==
    Alive /\ coinsBest # chainActive =>
        ~ret /\ \E m \in mapBlockIndex : Clean(m) /\ Worse(chainActive, m)

(* After a success, and until the next activation, the tip is the best:     *)
(* the index changes only on the way into one.                              *)
BestAtRest ==
    pc \in {"return", "orphans", "idle"} /\ ret =>
        \A b \in mapBlockIndex : Clean(b) => ~Worse(chainActive, b)

BInv == BestSoFar /\ PathKept /\ OffTip /\ BestAtRest

LEMMA WorseOrder ==
    ASSUME TypeOK, NEW a \in Blocks, NEW b \in Blocks, NEW c \in Blocks
    PROVE  /\ Worse(a, b) => ~Worse(b, a)
           /\ Worse(a, b) /\ Worse(b, c) => Worse(a, c)
           /\ a = b \/ Worse(a, b) \/ Worse(b, a)
<1>1. addr \in [Blocks -> Nat] /\ \A x, y \in Blocks : addr[x] = addr[y] => x = y
  BY ParameterAssumption DEF TypeOK, IndexTypeOK
<1>2. Work \in [Blocks -> Nat] /\ nSequenceId \in [Blocks -> Nat]
  BY TreeAssumption DEF TypeOK, IndexTypeOK
<1>3. \A x \in Blocks : Work[x] \in Nat /\ nSequenceId[x] \in Nat /\ addr[x] \in Nat
  BY <1>1, <1>2
<1> QED
  BY <1>1, <1>3 DEF Worse

LEMMA TipClean ==
    ASSUME IInv
    PROVE  Clean(chainActive) /\ Clean(coinsBest) /\ chainActive \in mapBlockIndex
           /\ coinsBest \in mapBlockIndex /\ chainActive \in Blocks /\ coinsBest \in Blocks
<1>1. chainActive \in Blocks /\ coinsBest \in Blocks
  BY DEF IInv, TypeOK, ChainTypeOK
<1> QED
  BY <1>1, ValidatedNotFailed, ChainFacts DEF IInv, TipsValidated, Validated, Clean

(* A clean chain stays clean when descendants of failed blocks are marked.  *)
LEMMA CleanStays ==
    ASSUME IInv, Alive, NEW m \in Blocks, Clean(m)
    PROVE  Chain[m] \cap (failed \cup FailedChildren) = {}
<1> SUFFICES ASSUME NEW b \in Chain[m], b \in FailedChildren PROVE FALSE
  BY DEF Clean
<1>1. PICK f \in failed : f \in Chain[b]
  BY FailedChildrenJustified
<1>2. Chain[b] \subseteq Chain[m]
  BY ChainFacts
<1> QED
  BY <1>1, <1>2 DEF Clean

LEMMA BackedOverFailed ==
    ASSUME IInv
    PROVE  BackedOver \subseteq failed
<1> SUFFICES ASSUME NEW b \in BackedOver PROVE b \in failed
  OBVIOUS
<1>1. chainMostWork # NoBlock /\ b \in Chain[chainMostWork]
      /\ \A c \in Chain[chainMostWork] : Height[c] >= Height[b] => c \in failed
  BY DEF BackedOver
<1>2. b \in Blocks
  BY <1>1, ChainFacts DEF IInv, TypeOK, ChainTypeOK
<1>3. Height[b] \in Nat
  BY <1>2, TreeAssumption
<1> QED
  BY <1>1, <1>3

LEMMA CleanViable ==
    ASSUME IInv, Alive, NEW b \in mapBlockIndex, Clean(b)
    PROVE  b \in Viable /\ b \in Blocks
<1>1. b \in Blocks
  BY DEF IInv, TypeOK, IndexTypeOK
<1>2. b \notin failed
  BY <1>1, ChainFacts DEF Clean
<1>3. b \in Candidates
  BY <1>2, BackedOverFailed DEF Candidates, IInv, CandidatesExact
<1> QED
  BY <1>1, <1>3 DEF Viable, FailedOnPath, Clean

(* What FindMostWorkChain leaves in chainMostWork.                          *)
LEMMA FindChooses ==
    ASSUME IInv, FindMostWorkChain
    PROVE  /\ chainMostWork' # NoBlock /\ chainMostWork' \in Blocks
           /\ \A b \in mapBlockIndex : Clean(b) => ~Worse(chainMostWork', b)
           /\ Clean(chainMostWork') \/ chainMostWork' \in BackedTo
<1>1. Alive
  BY DEF FindMostWorkChain, Alive
<1>2. Viable # {} /\ Viable \subseteq Blocks
  BY <1>1, TipClean, CleanViable DEF Viable, Candidates, IInv, TypeOK, StatusTypeOK
<1>3. PICK back \in BackedTo, best \in Best :
         chainMostWork' = IF back # NoBlock /\ ~Worse(back, best) THEN back ELSE best
  BY <1>2 DEF FindMostWorkChain
<1>4. back \in Blocks \cup {NoBlock}
  BY ChainFacts DEF BackedTo, IInv, TypeOK, ChainTypeOK
<1>5. best \in Viable /\ best \in Blocks /\ \A w \in Viable : w = best \/ Worse(w, best)
  BY <1>2 DEF Best
<1>6. NoBlock \notin Blocks
  BY TreeAssumption
<1>7. Clean(best)
  BY <1>5, TipClean DEF Viable, FailedOnPath, Clean
<1>8. ASSUME NEW b \in mapBlockIndex, Clean(b) PROVE ~Worse(chainMostWork', b)
  <2>1. b \in Viable /\ b \in Blocks
    BY <1>1, <1>8, CleanViable
  <2>2. b = best \/ Worse(b, best)
    BY <1>5, <2>1
  <2>3. CASE chainMostWork' = best
    BY <1>5, <2>1, <2>2, <2>3, WorseOrder DEF IInv
  <2>4. CASE chainMostWork' = back /\ back # NoBlock /\ ~Worse(back, best)
    <3>1. back \in Blocks
      BY <1>4, <2>4
    <3> QED
      BY <1>5, <2>1, <2>2, <2>4, <3>1, WorseOrder DEF IInv
  <2> QED
    BY <1>3, <2>3, <2>4
<1> QED
  BY <1>3, <1>4, <1>5, <1>6, <1>7, <1>8

LEMMA FindKeepsPath ==
    ASSUME IInv, PathKept, FindMostWorkChain
    PROVE  PathKept'
<1>1. Alive /\ chainActive' = chainActive /\ failed' = failed \cup FailedChildren
  BY DEF FindMostWorkChain, Alive
<1>2. chainMostWork' # NoBlock /\ chainMostWork' \in Blocks
      /\ (Clean(chainMostWork') \/ chainMostWork' \in BackedTo)
  BY FindChooses
<1> DEFINE n == chainMostWork'
<1>3. CASE Clean(n)
  BY <1>1, <1>2, <1>3, CleanStays DEF PathKept, Clean
<1>4. CASE n \in BackedTo /\ ~Clean(n)
  <2>1. chainMostWork # NoBlock /\ n \in Chain[chainMostWork]
    BY <1>2, <1>4 DEF BackedTo
  <2>2. chainMostWork \in Blocks
    BY <2>1 DEF IInv, TypeOK, ChainTypeOK
  <2>3. Chain[n] \subseteq Chain[chainMostWork]
    BY <2>1, <2>2, ChainFacts
  <2>4. chainActive \in Chain[chainMostWork]
    BY <1>4, <2>1, <2>3 DEF PathKept, Clean
  <2>5. chainActive \in Blocks /\ Clean(chainActive)
    BY TipClean
  <2>6. Height[n] \in Nat /\ Height[chainActive] \in Nat
    BY <1>2, <2>5, TreeAssumption
  <2>7. CASE Height[chainActive] <= Height[n]
    <3>1. chainActive \in Chain[n]
      BY <2>1, <2>2, <2>4, <2>7, Ancestors
    <3> QED
      BY <1>1, <3>1 DEF PathKept
  <2>8. CASE Height[n] <= Height[chainActive]
    <3>1. n \in Chain[chainActive]
      BY <2>1, <2>2, <2>4, <2>8, Ancestors
    <3>2. Chain[n] \subseteq Chain[chainActive]
      BY <2>5, <3>1, ChainFacts
    <3> QED
      BY <1>4, <2>5, <3>2 DEF Clean
  <2> QED
    BY <2>6, <2>7, <2>8
<1> QED
  BY <1>2, <1>3, <1>4

LEMMA BInvInit == Init => BInv
<1> SUFFICES ASSUME Init PROVE BInv
  OBVIOUS
<1>1. ~Worse(Genesis, Genesis)
  BY TypeInit, TreeAssumption, WorseOrder
<1> QED
  BY <1>1 DEF Init, BInv, BestSoFar, PathKept, OffTip, BestAtRest, Clean

(* A step that leaves the index, the flags and the tips alone.              *)
LEMMA BestFrame ==
    ASSUME BInv, UNCHANGED <<indexVars, failed, chainVars>>
    PROVE  /\ PathKept'
           /\ (pc' \in {"gate", "step"} => pc \in {"gate", "step"}) => BestSoFar'
           /\ (Alive' => Alive) /\ (ret' => ret) => OffTip'
           /\ (pc' \in {"return", "orphans", "idle"} /\ ret'
                   => pc \in {"return", "orphans", "idle"} /\ ret) => BestAtRest'
BY DEF BInv, PathKept, BestSoFar, OffTip, BestAtRest, Clean, Worse, indexVars, chainVars

LEMMA BestAdd ==
    ASSUME IInv, BInv, NEW b \in Blocks, b \notin mapBlockIndex, Alive, AddToBlockIndex(b),
           ret' = ret
    PROVE  BInv'
<1>1. /\ pc' = "find"
      /\ UNCHANGED <<addr, failed, chainActive, chainMostWork, coinsBest>>
      /\ mapBlockIndex' = mapBlockIndex \cup {b}
      /\ nSequenceId' = [nSequenceId EXCEPT ![b] = nBlockSequenceId]
  BY DEF AddToBlockIndex, chainVars
<1>2. PathKept' /\ BestSoFar' /\ BestAtRest'
  BY <1>1 DEF BInv, PathKept, BestSoFar, BestAtRest, Clean
<1>3. ASSUME coinsBest # chainActive
      PROVE  ~ret /\ \E m \in mapBlockIndex' : Clean(m)' /\ Worse(chainActive, m)'
  <2>1. ~ret /\ \E m \in mapBlockIndex : Clean(m) /\ Worse(chainActive, m)
    BY <1>3 DEF BInv, OffTip
  <2>2. PICK m \in mapBlockIndex : Clean(m) /\ Worse(chainActive, m)
    BY <2>1
  <2>3. m # b /\ chainActive # b /\ chainActive \in Blocks /\ m \in Blocks
    BY TipClean DEF IInv, TypeOK, IndexTypeOK
  <2>4. nSequenceId'[m] = nSequenceId[m] /\ nSequenceId'[chainActive] = nSequenceId[chainActive]
    BY <1>1, <2>3 DEF IInv, TypeOK, IndexTypeOK
  <2>5. Worse(chainActive, m)' /\ Clean(m)'
    BY <1>1, <2>2, <2>4 DEF Worse, Clean
  <2> QED
    BY <1>1, <2>1, <2>5
<1>4. OffTip'
  BY <1>1, <1>3 DEF OffTip
<1> QED
  BY <1>2, <1>4 DEF BInv

LEMMA BestFind ==
    ASSUME IInv, BInv, FindMostWorkChain
    PROVE  BInv'
<1>1. Alive /\ pc' = "gate" /\ failed' = failed \cup FailedChildren
      /\ UNCHANGED <<mapBlockIndex, nSequenceId, addr, chainActive, coinsBest, ret>>
  BY DEF FindMostWorkChain, Alive, indexVars, callVars
<1>2. PathKept'
  BY FindKeepsPath DEF BInv
<1>3. BestSoFar'
  <2>1. \A b \in mapBlockIndex : Clean(b) => ~Worse(chainMostWork', b)
    BY FindChooses
  <2>2. \A b : Clean(b)' => Clean(b)
    BY <1>1 DEF Clean
  <2>3. \A b : Worse(chainMostWork, b)' <=> Worse(chainMostWork', b)
    BY <1>1 DEF Worse
  <2> QED
    BY <1>1, <2>1, <2>2, <2>3, FindChooses DEF BestSoFar
<1>4. OffTip'
  <2> SUFFICES ASSUME coinsBest # chainActive
               PROVE  ~ret /\ \E m \in mapBlockIndex : Clean(m)' /\ Worse(chainActive, m)
    BY <1>1 DEF OffTip, Worse
  <2>1. ~ret
    BY <1>1 DEF BInv, OffTip
  <2>2. PICK m \in mapBlockIndex : Clean(m) /\ Worse(chainActive, m)
    BY <1>1 DEF BInv, OffTip
  <2>3. m \in Blocks
    BY DEF IInv, TypeOK, IndexTypeOK
  <2>4. Clean(m)'
    BY <1>1, <2>2, <2>3, CleanStays DEF Clean
  <2> QED
    BY <2>1, <2>2, <2>4
<1>5. BestAtRest'
  BY <1>1 DEF BestAtRest
<1> QED
  BY <1>2, <1>3, <1>4, <1>5 DEF BInv

LEMMA BestDisconnect ==
    ASSUME IInv, BInv, DisconnectTip
    PROVE  BInv'
<1>1. /\ pc = "step" /\ chainMostWork # NoBlock /\ chainActive \notin Chain[chainMostWork]
      /\ UNCHANGED <<mapBlockIndex, nSequenceId, addr, failed, chainMostWork>>
      /\ coinsBest' = Parent[chainActive]
  BY DEF DisconnectTip, Disconnecting, indexVars, statusVars
<1>2. Clean(chainMostWork) /\ ~Worse(chainMostWork, chainActive)
  BY <1>1, TipClean DEF BInv, PathKept, BestSoFar
<1>3. PathKept'
  BY <1>1, <1>2 DEF PathKept, Clean
<1>4. BestSoFar'
  BY <1>1 DEF BInv, BestSoFar, Clean, Worse
<1>5. CASE chainActive' = Parent[chainActive] /\ pc' = "step"
  BY <1>1, <1>3, <1>4, <1>5 DEF BInv, OffTip, BestAtRest
<1>6. CASE chainActive' = chainActive /\ pc' = "return" /\ ret' = FALSE
  <2>1. chainMostWork \in Blocks /\ chainMostWork \in mapBlockIndex /\ chainActive \in Blocks
    BY <1>1 DEF IInv, TypeOK, ChainTypeOK, HandlesIndexed
  <2>2. chainMostWork # chainActive
    BY <1>1, <2>1, ChainFacts
  <2>3. Worse(chainActive, chainMostWork)
    BY <1>2, <2>1, <2>2, WorseOrder DEF IInv
  <2>4. OffTip'
    BY <1>1, <1>2, <1>6, <2>1, <2>3 DEF OffTip, Clean, Worse
  <2> QED
    BY <1>3, <1>4, <1>6, <2>4 DEF BInv, BestAtRest
<1> QED
  BY <1>5, <1>6 DEF DisconnectTip, WriteChainState

LEMMA BestConnect ==
    ASSUME IInv, BInv, NEW b \in Blocks, ConnectTip(b)
    PROVE  BInv'
<1>1. /\ Connecting(b) /\ pc = "step" /\ chainMostWork # NoBlock
      /\ chainActive \in Chain[chainMostWork]
      /\ UNCHANGED <<mapBlockIndex, nSequenceId, addr, failed, chainMostWork>>
      /\ coinsBest' = b
  BY DEF ConnectTip, Connecting, indexVars
<1>2. b # Genesis /\ Parent[b] = chainActive /\ Chain[b] = Chain[chainActive] \cup {b}
      /\ b \in Chain[chainMostWork]
  BY <1>1, ConnectingExtends DEF IInv
<1>3. chainActive' \in {b, chainActive}
  BY DEF ConnectTip, WriteChainState
<1>4. PathKept'
  BY <1>1, <1>2, <1>3 DEF PathKept
<1>5. BestSoFar'
  BY <1>1 DEF BInv, BestSoFar, Clean, Worse
<1>6. CASE chainActive' = b /\ pc' = "step"
  BY <1>1, <1>4, <1>5, <1>6 DEF BInv, OffTip, BestAtRest
<1>7. CASE chainActive' = chainActive /\ pc' = "return" /\ ret' = FALSE
  <2>1. b \in mapBlockIndex
    BY <1>1, <1>2 DEF IInv, HandlesIndexed, IndexClosed
  <2>2. Clean(b)
    <3>1. b \notin Bad /\ Chain[chainActive] \cap Bad = {}
      BY DEF ConnectTip, IInv, TipsValidated, Validated
    <3>2. \A f \in Chain[b] : Chain[f] \subseteq Chain[b]
      BY ChainFacts
    <3> QED
      BY <1>2, <3>1, <3>2 DEF IInv, FailedIsJustified, Clean
  <2>3. Worse(chainActive, b)
    <3>1. Work[b] > Work[chainActive]
      BY <1>2, TreeAssumption
    <3>2. Work[b] \in Nat /\ Work[chainActive] \in Nat
      BY TipClean, TreeAssumption
    <3> QED
      BY <3>1, <3>2 DEF Worse
  <2>4. OffTip'
    BY <1>1, <1>7, <2>1, <2>2, <2>3 DEF OffTip, Clean, Worse
  <2> QED
    BY <1>4, <1>5, <1>7, <2>4 DEF BInv, BestAtRest
<1> QED
  BY <1>6, <1>7 DEF ConnectTip, WriteChainState

LEMMA BestInvalid ==
    ASSUME IInv, BInv, NEW b \in Blocks, InvalidBlockFound(b)
    PROVE  BInv'
<1>1. /\ Connecting(b) /\ pc = "step" /\ chainActive \in Chain[chainMostWork] /\ pc' = "find"
      /\ UNCHANGED <<mapBlockIndex, nSequenceId, addr, chainActive, coinsBest, chainMostWork, ret>>
  BY DEF InvalidBlockFound, Connecting, indexVars, chainVars, callVars
<1>2. coinsBest # chainActive => failed' = failed
  BY <1>1, ConnectingExtends DEF InvalidBlockFound, CorruptionPossible, IInv
<1>3. PathKept' /\ BestSoFar' /\ BestAtRest'
  BY <1>1 DEF PathKept, BestSoFar, BestAtRest
<1>4. OffTip'
  BY <1>1, <1>2 DEF BInv, OffTip, Alive, Clean, Worse
<1> QED
  BY <1>3, <1>4 DEF BInv

LEMMA BestComplete ==
    ASSUME IInv, BInv, ActivationComplete
    PROVE  BInv'
<1>1. pc = "step" /\ chainActive = chainMostWork /\ pc' = "return" /\ ret' = TRUE
      /\ UNCHANGED <<indexVars, failed, chainVars>>
  BY DEF ActivationComplete, statusVars
<1>2. \A b \in mapBlockIndex : Clean(b) => ~Worse(chainActive, b)
  BY <1>1 DEF BInv, BestSoFar
<1>3. coinsBest = chainActive
  BY <1>1, <1>2 DEF BInv, OffTip, Alive
<1>4. PathKept' /\ BestSoFar'
  BY <1>1, BestFrame
<1>5. OffTip'
  BY <1>1, <1>3 DEF OffTip, chainVars
<1>6. BestAtRest'
  BY <1>1, <1>2 DEF BestAtRest, Clean, Worse, indexVars, chainVars
<1> QED
  BY <1>4, <1>5, <1>6 DEF BInv

LEMMA BInvStep ==
    ASSUME IInv, BInv, [Next]_vars
    PROVE  BInv'
<1>1. ASSUME NEW b \in Blocks, ReceiveBlock(b) \/ AcceptOrphan(b) PROVE BInv'
  BY <1>1, BestAdd DEF ReceiveBlock, AcceptOrphan, Alive
<1>2. ASSUME NEW b \in Blocks, ReceiveOrphan(b) \/ RefuseOrphan(b) PROVE BInv'
  BY <1>2, BestFrame DEF ReceiveOrphan, RefuseOrphan, statusVars, Alive, BInv
<1>3. CASE NextInWorkQueue
  BY <1>3, BestFrame DEF NextInWorkQueue, statusVars, Alive, BInv
<1>4. CASE ReorgGate
  <2>1. pc = "gate" /\ UNCHANGED <<indexVars, failed, chainVars>>
        /\ pc' \in {"return", "step"} /\ (pc' = "return" => ret' = FALSE) /\ (ret' => ret)
    BY <1>4 DEF ReorgGate, BInv, BestSoFar, statusVars
  <2> QED
    BY <2>1, BestFrame DEF Alive, BInv
<1>5. CASE ReadBlockFails
  BY <1>5, BestFrame DEF ReadBlockFails, Disconnecting, Connecting, statusVars, Alive, BInv
<1>6. CASE AssertFails
  BY <1>6, BestFrame DEF AssertFails, statusVars, callVars, Alive, BInv
<1>7. CASE Return
  BY <1>7, BestFrame DEF Return, statusVars, Alive, BInv
<1>8. CASE Shutdown \/ Crash
  BY <1>8, BestFrame DEF Shutdown, Crash, statusVars, callVars, Alive, BInv
<1>9. CASE LoadBlockIndexDB
  BY <1>9 DEF LoadBlockIndexDB, LoadedTip, BInv, PathKept, BestSoFar, OffTip, BestAtRest
<1>10. CASE UNCHANGED vars
  BY <1>10, BestFrame DEF vars, statusVars, callVars, Alive, BInv
<1> QED
  BY <1>1, <1>2, <1>3, <1>4, <1>5, <1>6, <1>7, <1>8, <1>9, <1>10,
     BestFind, BestDisconnect, BestConnect, BestInvalid, BestComplete DEF Next, Step

(* What is said of the best chain holds in every reachable state.           *)
THEOREM BestInvariant == Spec => []BInv
BY BInvInit, BInvStep, InvariantHolds, PTL DEF Spec

(* A successful activation ends on the best chain the node knows.           *)
THEOREM AlwaysBestWhenComplete == Spec => []BestWhenComplete
<1>1. BInv => BestWhenComplete
  BY DEF BInv, BestAtRest, BestWhenComplete, Clean
<1> QED
  BY <1>1, BestInvariant, PTL

(* Success is never reported over a coins view that is not at the tip.      *)
THEOREM SuccessOnlyOnTip == Spec => []SuccessMeansViewOnTip
<1>1. BInv => SuccessMeansViewOnTip
  BY DEF BInv, OffTip, SuccessMeansViewOnTip
<1> QED
  BY <1>1, BestInvariant, PTL

(* The first-seen rule, for every tree, order of arrival and fallback.      *)
THEOREM TipAlwaysAbandonedForBetter == Spec => TipAbandonedForBetter
<1>1. ASSUME IInv, BInv, [Next]_vars,
             chainActive # Genesis, chainActive' = Parent[chainActive], pc # "down"
      PROVE  \/ Work[chainMostWork] > Work[chainActive]
             \/ /\ Work[chainMostWork] = Work[chainActive]
                /\ nSequenceId[chainMostWork] <= nSequenceId[chainActive]
  <2>1. chainActive \in Blocks /\ chainActive \in mapBlockIndex /\ Clean(chainActive)
    BY <1>1, TipClean
  <2>2. Parent[chainActive] \in Blocks /\ Height[chainActive] = Height[Parent[chainActive]] + 1
        /\ Height[Parent[chainActive]] \in Nat
    BY <1>1, <2>1, TreeAssumption
  <2>3. chainActive' # chainActive
    BY <1>1, <2>2
  <2>4. ASSUME NEW b \in Blocks, ConnectTip(b) PROVE FALSE
    <3>1. Connecting(b) /\ chainActive' \in {b, chainActive}
      BY <2>4 DEF ConnectTip, WriteChainState
    <3>2. Height[b] = Height[chainActive] + 1
      BY <3>1 DEF Connecting
    <3> QED
      BY <1>1, <2>2, <2>3, <3>1, <3>2
  <2>5. DisconnectTip
    BY <1>1, <2>3, <2>4
       DEF Next, Step, ReceiveBlock, AcceptOrphan, AddToBlockIndex, ReceiveOrphan, RefuseOrphan,
           NextInWorkQueue, FindMostWorkChain, ReorgGate, InvalidBlockFound, ReadBlockFails,
           AssertFails, ActivationComplete, Return, Shutdown, Crash, LoadBlockIndexDB, vars,
           chainVars
  <2>6. chainMostWork # NoBlock /\ ~Worse(chainMostWork, chainActive)
    BY <1>1, <2>1, <2>5 DEF BInv, BestSoFar, DisconnectTip, Disconnecting
  <2>7. chainMostWork \in Blocks
    BY <1>1, <2>6 DEF IInv, TypeOK, ChainTypeOK
  <2>8. /\ Work[chainMostWork] \in Nat /\ Work[chainActive] \in Nat
        /\ nSequenceId[chainMostWork] \in Nat /\ nSequenceId[chainActive] \in Nat
    BY <1>1, <2>1, <2>7, TreeAssumption DEF IInv, TypeOK, IndexTypeOK
  <2> QED
    BY <2>6, <2>8 DEF Worse
<1>2. IInv /\ BInv /\ [Next]_vars =>
        [chainActive # Genesis /\ chainActive' = Parent[chainActive] /\ pc # "down" =>
            \/ Work[chainMostWork] > Work[chainActive]
            \/ /\ Work[chainMostWork] = Work[chainActive]
               /\ nSequenceId[chainMostWork] <= nSequenceId[chainActive]]_vars
  BY <1>1
<1> QED
  BY <1>2, InvariantHolds, BestInvariant, PTL DEF Spec, TipAbandonedForBetter

-----------------------------------------------------------------------------
(* How far one activation unwinds, when no block is found invalid.          *)

(* Two chains have a last common block.                                     *)
LEMMA ForkFacts ==
    ASSUME NEW a \in Blocks, NEW b \in Blocks
    PROVE  /\ Fork(a, b) \in Chain[a] \cap Chain[b]
           /\ \A d \in Chain[a] \cap Chain[b] : Height[d] <= Height[Fork(a, b)]
<1> DEFINE Depths == {Height[a] - Height[c] : c \in Chain[a] \cap Chain[b]}
<1>1. Chain[a] \cap Chain[b] \subseteq Blocks /\ Genesis \in Chain[a] \cap Chain[b]
  BY ChainFacts
<1>2. \A c \in Chain[a] \cap Chain[b] :
         Height[c] \in Nat /\ Height[a] \in Nat /\ Height[c] <= Height[a]
  BY <1>1, Ancestors, TreeAssumption
<1>3. Depths \subseteq Nat
  BY <1>2
<1>4. Depths # {}
  BY <1>1
<1> HIDE DEF Depths
<1>5. PICK m \in Depths : \A n \in Depths : m <= n
  BY <1>3, <1>4, LeastNat
<1>6. PICK c \in Chain[a] \cap Chain[b] : m = Height[a] - Height[c]
  BY <1>5 DEF Depths
<1>7. ASSUME NEW d \in Chain[a] \cap Chain[b] PROVE Height[d] <= Height[c]
  <2>1. Height[a] - Height[d] \in Depths
    BY DEF Depths
  <2>2. Height[a] - Height[c] <= Height[a] - Height[d]
    BY <1>5, <1>6, <2>1
  <2>3. Height[a] \in Nat /\ Height[c] \in Nat /\ Height[d] \in Nat
    BY <1>2
  <2> QED
    BY <2>2, <2>3
<1> QED
  BY <1>7 DEF Fork

(* chainMostWork is a clean chain and no clean indexed block is preferred.  *)
Preferred ==
    /\ chainMostWork # NoBlock /\ Clean(chainMostWork)
    /\ \A b \in mapBlockIndex : Clean(b) => ~Worse(chainMostWork, b)

(* FindMostWorkChain comes back to it: after a damaged copy the activation  *)
(* goes on where it was.                                                    *)
LEMMA PreferredStays ==
    ASSUME IInv, Preferred, FindMostWorkChain
    PROVE  chainMostWork' = chainMostWork /\ Preferred'
<1> DEFINE c == chainMostWork
<1>1. Alive /\ c \in Blocks /\ c # NoBlock
  BY DEF Preferred, FindMostWorkChain, Alive, IInv, TypeOK, ChainTypeOK
<1>2. /\ failed' = failed \cup FailedChildren
      /\ UNCHANGED <<mapBlockIndex, nSequenceId, addr>>
  BY DEF FindMostWorkChain, indexVars
<1>3. BackedOver = {}
  <2>1. BackedOver \subseteq Chain[c]
    BY DEF BackedOver
  <2> QED
    BY <2>1, BackedOverFailed DEF Preferred, Clean
<1>4. BackedTo = {c}
  <2>1. Chain[c] # {} /\ c \in Chain[c] /\ \A d \in Chain[c] : Height[d] <= Height[c]
    BY <1>1, ChainFacts, Ancestors
  <2>2. BackedTo = {b \in Chain[c] : \A d \in Chain[c] : Height[d] <= Height[b]}
    BY <1>1, <1>3, <2>1 DEF BackedTo
  <2>3. ASSUME NEW b \in Chain[c], Height[c] <= Height[b] PROVE b = c
    <3>1. Height[b] <= Height[c] /\ Height[b] \in Nat /\ Height[c] \in Nat
      BY <1>1, <2>1, ChainFacts, TreeAssumption
    <3>2. Height[b] = Height[c]
      BY <2>3, <3>1
    <3> QED
      BY <1>1, <2>1, <3>2, Ancestors
  <2> QED
    BY <2>1, <2>2, <2>3
<1>5. Viable # {}
  BY <1>1, TipClean, CleanViable
<1>6. ASSUME NEW best \in Best PROVE ~Worse(c, best)
  <2>1. best \in mapBlockIndex
    BY <1>1 DEF Best, Viable, Candidates, IInv, CandidatesExact
  <2>2. Clean(best)
    BY TipClean DEF Best, Viable, FailedOnPath, Clean
  <2> QED
    BY <2>1, <2>2 DEF Preferred
<1>7. chainMostWork' = c
  BY <1>1, <1>4, <1>5, <1>6 DEF FindMostWorkChain
<1>8. Clean(c)'
  BY <1>1, <1>2, <1>7, CleanStays DEF Preferred, Clean
<1>9. Preferred'
  BY <1>1, <1>2, <1>7, <1>8 DEF Preferred, Clean, Worse
<1> QED
  BY <1>7, <1>9

(* f is not deeper below the tip the activation found than the gate allows. *)
Within(f) ==
    Height[pindexOldTip] >= LWMA3ForkHeight
        => Height[pindexOldTip] - Height[f] <= MaxReorgDepth

(* The activation has not gone below f: it is an ancestor of the tip now,   *)
(* of the tip then, and of where the activation is going.                   *)
Unwound ==
    /\ pc \in {"find", "gate"} =>
          \/ chainActive = pindexOldTip
          \/ /\ Preferred /\ chainActive \in Chain[chainMostWork]
             /\ \E f \in Chain[chainActive] \cap Chain[pindexOldTip] : Within(f)
    /\ pc = "step" =>
          \E f \in Chain[chainActive] \cap Chain[chainMostWork] \cap Chain[pindexOldTip] : Within(f)
    /\ pc = "return" =>
          \E f \in Chain[chainActive] \cap Chain[pindexOldTip] : Within(f)

LEMMA UnwoundBounded == ASSUME IInv, Unwound PROVE ReorgBounded
<1> DEFINE o == pindexOldTip
<1> SUFFICES ASSUME pc \in {"find", "gate", "step", "return"}, Height[o] >= LWMA3ForkHeight
             PROVE  Height[o] - Height[Fork(o, chainActive)] <= MaxReorgDepth
  BY DEF ReorgBounded
<1>1. o \in Blocks /\ chainActive \in Blocks
  BY DEF IInv, TypeOK, CallTypeOK, ChainTypeOK
<1>2. /\ Fork(o, chainActive) \in Blocks
      /\ \A d \in Chain[o] \cap Chain[chainActive] : Height[d] <= Height[Fork(o, chainActive)]
  BY <1>1, ForkFacts, ChainFacts
<1>3. PICK f \in Chain[chainActive] \cap Chain[o] : Height[o] - Height[f] <= MaxReorgDepth
  <2>1. CASE pc \in {"find", "gate"} /\ chainActive = o
    <3>1. o \in Chain[o] /\ Height[o] \in Nat /\ MaxReorgDepth \in Nat
      BY <1>1, ChainFacts, TreeAssumption, ParameterAssumption
    <3>2. Height[o] - Height[o] <= MaxReorgDepth
      BY <3>1
    <3> QED
      BY <2>1, <3>1, <3>2
  <2>2. CASE \E f \in Chain[chainActive] \cap Chain[o] : Within(f)
    BY <2>2 DEF Within
  <2> QED
    BY <2>1, <2>2 DEF Unwound
<1>4. Height[f] <= Height[Fork(o, chainActive)]
  BY <1>2, <1>3
<1>5. /\ Height[f] \in Nat /\ Height[o] \in Nat /\ Height[Fork(o, chainActive)] \in Nat
      /\ MaxReorgDepth \in Nat
  BY <1>1, <1>2, <1>3, ChainFacts, TreeAssumption, ParameterAssumption
<1> QED
  BY <1>3, <1>4, <1>5

(* A step outside of the loop of ActivateBestChain, or out of it.           *)
LEMMA UnwoundOutside ==
    ASSUME pc' \notin {"find", "gate", "step", "return"}
    PROVE  Unwound'
BY DEF Unwound

LEMMA UnwoundEnters ==
    ASSUME pc' = "find", chainActive' = pindexOldTip'
    PROVE  Unwound'
BY DEF Unwound

LEMMA UnwoundGate ==
    ASSUME IInv, BInv, Bad = {}, Unwound, ReorgGate
    PROVE  Unwound'
<1> DEFINE o == pindexOldTip
<1>1. /\ pc = "gate" /\ UNCHANGED <<chainActive, chainMostWork, pindexOldTip>>
      /\ chainMostWork # NoBlock /\ chainMostWork \in Blocks /\ chainActive \in Blocks
      /\ \/ pc' = "return"
         \/ pc' = "step" /\ ~ReorgRefused
  BY DEF ReorgGate, BInv, BestSoFar, chainVars, IInv, TypeOK, ChainTypeOK
<1>2. CASE chainActive = o
  <2>1. o \in Chain[o] /\ Within(o)
    <3>1. Height[o] \in Nat /\ MaxReorgDepth \in Nat
      BY <1>1, <1>2, TreeAssumption, ParameterAssumption
    <3> QED
      BY <1>1, <1>2, <3>1, ChainFacts DEF Within
  <2>2. CASE pc' = "return"
    BY <1>1, <1>2, <2>1, <2>2 DEF Unwound, Within
  <2>3. CASE pc' = "step" /\ ~ReorgRefused
    <3> DEFINE f == Fork(chainActive, chainMostWork)
    <3>1. f \in Chain[chainActive] \cap Chain[chainMostWork]
      BY <1>1, ForkFacts
    <3>2. Within(f)
      <4>1. Height[o] >= LWMA3ForkHeight => ~(Height[o] - Height[f] > MaxReorgDepth)
        BY <1>1, <1>2, <2>3 DEF ReorgRefused, ReorgDepth
      <4>2. Height[o] \in Nat /\ Height[f] \in Nat /\ MaxReorgDepth \in Nat
        BY <1>1, <1>2, <3>1, ChainFacts, TreeAssumption, ParameterAssumption
      <4> QED
        BY <4>1, <4>2 DEF Within
    <3> QED
      BY <1>1, <1>2, <2>3, <3>1, <3>2 DEF Unwound, Within
  <2> QED
    BY <1>1, <2>2, <2>3
<1>3. CASE /\ chainActive \in Chain[chainMostWork]
           /\ \E f \in Chain[chainActive] \cap Chain[o] : Within(f)
  <2>1. PICK f \in Chain[chainActive] \cap Chain[o] : Within(f)
    BY <1>3
  <2>2. f \in Chain[chainMostWork]
    BY <1>1, <1>3, <2>1, ChainFacts
  <2> QED
    BY <1>1, <2>1, <2>2 DEF Unwound, Within
<1> QED
  BY <1>1, <1>2, <1>3 DEF Unwound

LEMMA UnwoundDisconnect ==
    ASSUME IInv, Unwound, DisconnectTip
    PROVE  Unwound'
<1>1. /\ pc = "step" /\ chainActive \notin Chain[chainMostWork] /\ chainMostWork \in Blocks
      /\ UNCHANGED <<chainMostWork, pindexOldTip>>
      /\ chainActive' \in {chainActive, Parent[chainActive]} /\ pc' \in {"step", "return"}
  BY DEF DisconnectTip, Disconnecting, WriteChainState, IInv, TypeOK, ChainTypeOK
<1>2. PICK f \in Chain[chainActive] \cap Chain[chainMostWork] \cap Chain[pindexOldTip] : Within(f)
  BY <1>1 DEF Unwound
<1>3. chainActive \in Blocks \ {Genesis}
  BY <1>1, ChainFacts DEF IInv, TypeOK, ChainTypeOK
<1>4. f \in Chain[Parent[chainActive]]
  BY <1>1, <1>2, <1>3, TreeAssumption
<1> QED
  BY <1>1, <1>2, <1>4 DEF Unwound, Within

LEMMA UnwoundConnect ==
    ASSUME IInv, Unwound, NEW b \in Blocks, ConnectTip(b)
    PROVE  Unwound'
<1>1. /\ pc = "step" /\ Connecting(b)
      /\ UNCHANGED <<chainMostWork, pindexOldTip>>
      /\ chainActive' \in {chainActive, b} /\ pc' \in {"step", "return"}
  BY DEF ConnectTip, Connecting, WriteChainState
<1>2. Chain[b] = Chain[chainActive] \cup {b}
  BY <1>1, ConnectingExtends DEF IInv
<1>3. PICK f \in Chain[chainActive] \cap Chain[chainMostWork] \cap Chain[pindexOldTip] : Within(f)
  BY <1>1 DEF Unwound
<1> QED
  BY <1>1, <1>2, <1>3 DEF Unwound, Within

LEMMA UnwoundInvalid ==
    ASSUME IInv, BInv, Bad = {}, Unwound, NEW b \in Blocks, InvalidBlockFound(b)
    PROVE  Unwound'
<1>1. /\ pc = "step" /\ pc' = "find" /\ chainActive \in Chain[chainMostWork]
      /\ UNCHANGED <<mapBlockIndex, nSequenceId, addr, chainActive, chainMostWork, pindexOldTip, failed>>
  BY DEF InvalidBlockFound, Connecting, CorruptionPossible, indexVars, chainVars, callVars
<1>2. failed = {}
  BY DEF IInv, FailedIsJustified
<1>3. Preferred
  BY <1>1, <1>2 DEF BInv, BestSoFar, Preferred, Clean
<1>4. Preferred'
  BY <1>1, <1>3 DEF Preferred, Clean, Worse
<1>5. PICK f \in Chain[chainActive] \cap Chain[chainMostWork] \cap Chain[pindexOldTip] : Within(f)
  BY <1>1 DEF Unwound
<1> QED
  BY <1>1, <1>4, <1>5 DEF Unwound, Within

LEMMA UnwoundStep ==
    ASSUME IInv, BInv, Bad = {}, Unwound, [Next]_vars
    PROVE  Unwound'
<1>1. ASSUME NEW b \in Blocks, ReceiveBlock(b) \/ AcceptOrphan(b) PROVE Unwound'
  BY <1>1, UnwoundEnters DEF ReceiveBlock, AcceptOrphan, AddToBlockIndex, chainVars
<1>2. ASSUME NEW b \in Blocks, ReceiveOrphan(b) \/ RefuseOrphan(b) PROVE Unwound'
  BY <1>2, UnwoundOutside DEF ReceiveOrphan, RefuseOrphan
<1>3. CASE NextInWorkQueue \/ AssertFails \/ Return \/ Shutdown \/ Crash
  BY <1>3, UnwoundOutside DEF NextInWorkQueue, AssertFails, Return, Shutdown, Crash
<1>4. CASE FindMostWorkChain
  <2>1. pc = "find" /\ pc' = "gate" /\ UNCHANGED <<chainActive, pindexOldTip>>
    BY <1>4 DEF FindMostWorkChain, callVars
  <2>2. Preferred => Preferred' /\ chainMostWork' = chainMostWork
    BY <1>4, PreferredStays
  <2> QED
    BY <2>1, <2>2 DEF Unwound, Within
<1>5. CASE ReadBlockFails \/ ActivationComplete
  <2>1. pc = "step" /\ pc' = "return" /\ UNCHANGED <<chainActive, pindexOldTip>>
    BY <1>5 DEF ReadBlockFails, Disconnecting, Connecting, ActivationComplete, chainVars
  <2> QED
    BY <2>1 DEF Unwound, Within
<1>6. CASE LoadBlockIndexDB
  BY <1>6, UnwoundEnters DEF LoadBlockIndexDB
<1>7. CASE UNCHANGED vars
  BY <1>7 DEF vars, indexVars, statusVars, chainVars, callVars, Unwound, Within, Preferred, Clean, Worse
<1> QED
  BY <1>1, <1>2, <1>3, <1>4, <1>5, <1>6, <1>7, UnwoundGate, UnwoundDisconnect, UnwoundConnect,
     UnwoundInvalid DEF Next, Step

(* pow.h:27, for every tree without an invalid block: one call of           *)
(* ActivateBestChain does not unwind more than MAX_REORG_DEPTH blocks,      *)
(* whatever copies are damaged, reads and writes fail, or deaths cut it     *)
(* short.  An invalid block lets it unwind as much again.                   *)
THEOREM AlwaysReorgBounded ==
    ASSUME Bad = {}
    PROVE  Spec => []ReorgBounded
<1>1. Init => Unwound
  BY DEF Init, Unwound
<1>2. IInv /\ BInv /\ Unwound /\ [Next]_vars => Unwound'
  BY UnwoundStep
<1>3. IInv /\ Unwound => ReorgBounded
  BY UnwoundBounded
<1> QED
  BY <1>1, <1>2, <1>3, InvariantHolds, BestInvariant, PTL DEF Spec

-----------------------------------------------------------------------------
(* Orphans, when nothing makes a call return early.                         *)

(* No branch of the tree leaves another so far below its top that the gate  *)
(* would refuse to go over to it.                                           *)
ShallowForks ==
    \A a, b \in Blocks :
        Height[a] >= LWMA3ForkHeight => Height[a] - Height[Fork(a, b)] <= MaxReorgDepth

Queued == {vWorkQueue[i] : i \in 1 .. Len(vWorkQueue)}

(* Orphans whose parent the index holds.                                    *)
Unblocked == {x \in mapOrphanBlocks : Parent[x] \in mapBlockIndex}

(* Each of them is on somebody's list: the queue, or the block on its way   *)
(* into it.                                                                 *)
Tracked ==
    /\ pc = "idle" => vWorkQueue = <<>> /\ Unblocked = {}
    /\ pc = "orphans" => \A x \in Unblocked : Parent[x] \in Queued
    /\ pc \in {"find", "gate", "step", "return"} =>
          /\ \A x \in Unblocked : Parent[x] = cur \/ Parent[x] \in Queued
          /\ cur = NoBlock => mapOrphanBlocks = {} /\ vWorkQueue = <<>>
          /\ cur \notin mapOrphanBlocks => vWorkQueue = <<>>
    /\ pc = "return" => ret

OrphansTracked == diskErrors = 0 => Tracked

(* Inside the loop of ActivateBestChain.                                    *)
LEMMA TrackedInside ==
    ASSUME OrphansTracked, pc \in {"find", "gate", "step"},
           UNCHANGED <<mapBlockIndex, mapOrphanBlocks, vWorkQueue, cur>>,
           diskErrors' = 0 => diskErrors = 0,
           pc' \in {"find", "gate", "step", "aborted"}
             \/ (pc' = "return" /\ (diskErrors' = 0 => ret'))
    PROVE  OrphansTracked'
BY DEF OrphansTracked, Tracked, Unblocked, Queued

LEMMA TrackedAdd ==
    ASSUME TypeOK, OrphansTracked, NEW b \in Blocks, AddToBlockIndex(b), b # NoBlock,
           UNCHANGED <<mapOrphanBlocks, vWorkQueue, diskErrors>>,
           \/ pc = "idle" /\ b \notin mapOrphanBlocks
           \/ pc = "orphans" /\ b \in mapOrphanBlocks
    PROVE  OrphansTracked'
<1>1. /\ mapBlockIndex' = mapBlockIndex \cup {b} /\ cur' = b /\ pc' = "find"
      /\ Queued' = Queued
  BY DEF AddToBlockIndex, Queued
<1>2. ASSUME diskErrors = 0 PROVE Tracked'
  <2>1. Unblocked' \subseteq Unblocked \cup {x \in mapOrphanBlocks : Parent[x] = b}
    BY <1>1 DEF Unblocked
  <2>2. Tracked
    BY <1>2 DEF OrphansTracked
  <2>3. \A x \in Unblocked' : Parent[x] = b \/ Parent[x] \in Queued
    BY <2>1, <2>2 DEF Tracked
  <2> QED
    BY <1>1, <2>2, <2>3 DEF Tracked
<1> QED
  BY <1>2 DEF OrphansTracked

LEMMA TrackedReturn ==
    ASSUME IInv, OrphansTracked, Return
    PROVE  OrphansTracked'
<1> SUFFICES ASSUME diskErrors = 0 PROVE Tracked'
  BY DEF OrphansTracked, Return, boundVars
<1>1. pc = "return" /\ ret /\ mapBlockIndex' = mapBlockIndex /\ mapOrphanBlocks' \subseteq mapOrphanBlocks
  BY DEF Return, OrphansTracked, Tracked, indexVars
<1>2. /\ \A x \in Unblocked : Parent[x] = cur \/ Parent[x] \in Queued
      /\ cur = NoBlock => mapOrphanBlocks = {} /\ vWorkQueue = <<>>
      /\ cur \notin mapOrphanBlocks => vWorkQueue = <<>>
  BY <1>1 DEF OrphansTracked, Tracked
<1>3. Unblocked' \subseteq Unblocked
  BY <1>1 DEF Unblocked
<1>4. CASE cur = NoBlock
  BY <1>1, <1>2, <1>3, <1>4 DEF Return, Tracked, Unblocked
<1>5. CASE cur # NoBlock
  <2>1. vWorkQueue \in Seq(Blocks) /\ cur \in Blocks
    BY <1>5 DEF IInv, TypeOK, CallTypeOK
  <2>2. pc' = "orphans" /\ vWorkQueue' = Append(vWorkQueue, cur)
    <3>1. CASE cur \in mapOrphanBlocks
      BY <1>1, <1>5, <3>1 DEF Return, Requeue, AcceptedHash
    <3>2. CASE cur \notin mapOrphanBlocks
      <4>1. pc' = "orphans" /\ vWorkQueue' = <<cur>> /\ vWorkQueue = <<>>
        BY <1>1, <1>2, <1>5, <3>2 DEF Return, AcceptedHash
      <4> QED
        BY <2>1, <4>1
    <3> QED
      BY <3>1, <3>2
  <2>3. cur \in Queued'
    <3>1. Len(vWorkQueue') = Len(vWorkQueue) + 1 /\ vWorkQueue'[Len(vWorkQueue) + 1] = cur
          /\ Len(vWorkQueue) + 1 \in 1 .. Len(vWorkQueue) + 1
      BY <2>1, <2>2
    <3> QED
      BY <3>1 DEF Queued
  <2>4. ASSUME NEW x \in Queued PROVE x \in Queued'
    <3>1. PICK i \in 1 .. Len(vWorkQueue) : vWorkQueue[i] = x
      BY <2>4 DEF Queued
    <3>2. i \in 1 .. Len(vWorkQueue') /\ vWorkQueue'[i] = x
      BY <2>1, <2>2, <3>1
    <3> QED
      BY <3>2 DEF Queued
  <2>5. \A x \in Unblocked' : Parent[x] \in Queued'
    BY <1>2, <1>3, <2>3, <2>4
  <2> QED
    BY <2>2, <2>5 DEF Tracked
<1> QED
  BY <1>4, <1>5

LEMMA TrackedNextInWorkQueue ==
    ASSUME TypeOK, OrphansTracked, NextInWorkQueue
    PROVE  OrphansTracked'
<1> SUFFICES ASSUME diskErrors = 0 PROVE Tracked'
  BY DEF OrphansTracked, NextInWorkQueue, boundVars
<1>1. pc = "orphans" /\ UNCHANGED <<mapBlockIndex, mapOrphanBlocks>> /\ vWorkQueue \in Seq(Blocks)
  BY DEF NextInWorkQueue, indexVars, TypeOK, CallTypeOK
<1>2. \A x \in Unblocked : Parent[x] \in Queued
  BY <1>1 DEF OrphansTracked, Tracked
<1>3. Unblocked' = Unblocked /\ Unblocked \subseteq mapOrphanBlocks
  BY <1>1 DEF Unblocked
<1>4. CASE vWorkQueue = <<>>
  <2>1. Unblocked = {}
    BY <1>2, <1>4 DEF Queued
  <2> QED
    BY <1>3, <1>4, <2>1 DEF NextInWorkQueue, Tracked
<1>5. CASE vWorkQueue # <<>>
  <2>1. pc' = "orphans" /\ vWorkQueue' = Tail(vWorkQueue)
        /\ \A x \in mapOrphanBlocks : Parent[x] # Head(vWorkQueue)
    BY <1>1, <1>5 DEF NextInWorkQueue
  <2>2. ASSUME NEW x \in Unblocked PROVE Parent[x] \in Queued'
    <3>1. PICK i \in 1 .. Len(vWorkQueue) : vWorkQueue[i] = Parent[x]
      BY <1>2 DEF Queued
    <3>2. i # 1
      BY <1>1, <1>3, <1>5, <2>1, <3>1
    <3>3. i - 1 \in 1 .. Len(Tail(vWorkQueue)) /\ Tail(vWorkQueue)[i - 1] = vWorkQueue[i]
      BY <1>1, <1>5, <3>1, <3>2
    <3> QED
      BY <2>1, <3>1, <3>3 DEF Queued
  <2> QED
    BY <1>3, <2>1, <2>2 DEF Tracked
<1> QED
  BY <1>4, <1>5

LEMMA TrackedStep ==
    ASSUME ShallowForks, IInv, BInv, OrphansTracked, [Next]_vars
    PROVE  OrphansTracked'
<1>0. TypeOK /\ NoBlock \notin Blocks /\ diskErrors \in Nat
  BY TreeAssumption, ParameterAssumption DEF IInv, TypeOK, BoundTypeOK
<1>1. ASSUME NEW b \in Blocks, ReceiveBlock(b) \/ AcceptOrphan(b) PROVE OrphansTracked'
  BY <1>0, <1>1, TrackedAdd DEF ReceiveBlock, AcceptOrphan, boundVars
<1>2. ASSUME NEW b \in Blocks, ReceiveOrphan(b) PROVE OrphansTracked'
  <2>1. /\ pc = "idle" /\ pc' = "idle" /\ Parent[b] \notin mapBlockIndex
        /\ mapOrphanBlocks' \subseteq mapOrphanBlocks \cup {b}
        /\ UNCHANGED <<mapBlockIndex, vWorkQueue, diskErrors>>
    BY <1>2 DEF ReceiveOrphan, PruneOrphanBlocks, indexVars, boundVars
  <2>2. Unblocked' \subseteq Unblocked
    BY <2>1 DEF Unblocked
  <2> QED
    BY <2>1, <2>2 DEF OrphansTracked, Tracked
<1>3. ASSUME NEW b \in Blocks, RefuseOrphan(b) PROVE OrphansTracked'
  <2>1. /\ pc = "orphans" /\ pc' = "orphans" /\ mapOrphanBlocks' \subseteq mapOrphanBlocks
        /\ UNCHANGED <<mapBlockIndex, vWorkQueue, diskErrors>>
    BY <1>3 DEF RefuseOrphan, indexVars, boundVars
  <2>2. Unblocked' \subseteq Unblocked
    BY <2>1 DEF Unblocked
  <2> QED
    BY <2>1, <2>2 DEF OrphansTracked, Tracked, Queued
<1>4. CASE FindMostWorkChain
  BY <1>4, TrackedInside DEF FindMostWorkChain, indexVars, callVars, boundVars
<1>5. CASE ReorgGate
  <2>1. ~ReorgRefused /\ pc = "gate" /\ chainMostWork # NoBlock
    <3>1. pc = "gate" /\ chainMostWork \in Blocks /\ chainActive \in Blocks
      BY <1>0, <1>5 DEF ReorgGate, BInv, BestSoFar, TypeOK, ChainTypeOK
    <3>2. Height[chainActive] >= LWMA3ForkHeight => ReorgDepth <= MaxReorgDepth
      BY <3>1 DEF ShallowForks, ReorgDepth
    <3>3. ReorgDepth \in Int /\ MaxReorgDepth \in Nat
      BY <3>1, ForkFacts, ChainFacts, TreeAssumption, ParameterAssumption DEF ReorgDepth
    <3> QED
      BY <1>0, <3>1, <3>2, <3>3 DEF ReorgRefused
  <2> QED
    BY <1>5, <2>1, TrackedInside DEF ReorgGate, indexVars, boundVars
<1>6. CASE DisconnectTip
  BY <1>0, <1>6, TrackedInside
     DEF DisconnectTip, Disconnecting, WriteChainState, indexVars
<1>7. ASSUME NEW b \in Blocks, ConnectTip(b) PROVE OrphansTracked'
  BY <1>0, <1>7, TrackedInside DEF ConnectTip, Connecting, WriteChainState, indexVars
<1>8. ASSUME NEW b \in Blocks, InvalidBlockFound(b) PROVE OrphansTracked'
  BY <1>8, TrackedInside DEF InvalidBlockFound, Connecting, indexVars, callVars, boundVars
<1>9. CASE ReadBlockFails
  BY <1>0, <1>9, TrackedInside DEF ReadBlockFails, Disconnecting, Connecting, indexVars
<1>10. CASE AssertFails
  BY <1>10, TrackedInside DEF AssertFails, Disconnecting, Connecting, indexVars, callVars, boundVars
<1>11. CASE ActivationComplete
  BY <1>11, TrackedInside DEF ActivationComplete, indexVars, boundVars
<1>12. CASE Shutdown \/ Crash
  BY <1>12 DEF Shutdown, Crash, OrphansTracked, Tracked
<1>13. CASE LoadBlockIndexDB
  BY <1>13 DEF LoadBlockIndexDB, OrphansTracked, Tracked, Unblocked
<1>14. CASE UNCHANGED vars
  BY <1>14 DEF vars, indexVars, callVars, boundVars, OrphansTracked, Tracked, Unblocked, Queued
<1> QED
  BY <1>0, <1>1, <1>2, <1>3, <1>4, <1>5, <1>6, <1>7, <1>8, <1>9, <1>10, <1>11, <1>12, <1>13, <1>14,
     TrackedReturn, TrackedNextInWorkQueue DEF Next, Step

(* An orphan block waits for a parent the node does not have, on every      *)
(* tree without a branch the gate refuses (which makes ProcessBlock return  *)
(* before it has looked for the block's orphans): also for orphans of       *)
(* orphans, of blocks found invalid, and across a restart.                  *)
THEOREM OrphansAlwaysWait ==
    ASSUME ShallowForks
    PROVE  Spec => []OrphansWait
<1>1. Init => OrphansTracked
  BY DEF Init, OrphansTracked, Tracked, Unblocked
<1>2. IInv /\ BInv /\ OrphansTracked /\ [Next]_vars => OrphansTracked'
  BY TrackedStep
<1>3. OrphansTracked => OrphansWait
  BY DEF OrphansTracked, Tracked, Unblocked, OrphansWait
<1> QED
  BY <1>1, <1>2, <1>3, InvariantHolds, BestInvariant, PTL DEF Spec

=============================================================================
