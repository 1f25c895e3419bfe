------------------------------- MODULE Mining -------------------------------
(***************************************************************************)
(* Making blocks across the restoration fork, the Conclave's window and    *)
(* the emergency difficulty: CreateNewBlock, BuildPoolCoinbase,            *)
(* SignBlockIfNeeded, the thread BitcoinMiner and CheckWork                *)
(* (src/miner.cpp), getblocktemplate and submitblock (src/rpcmining.cpp),  *)
(* against the rules of EmergencyDifficultyEligible (src/pow.cpp),         *)
(* AcceptBlock, CheckBlock and ConnectBlock (src/main.cpp).                *)
(*                                                                         *)
(* What is a step is what holds cs_main: each RPC call; in the thread, the *)
(* read of the tip, CreateNewBlock, each look at the tip while it hashes,  *)
(* and CheckWork.                                                          *)
(***************************************************************************)
EXTENDS Restoration, FiniteSets

CONSTANTS
    EmergencyDiffForkHeight,
    GAP,            \* EMERGENCY_DIFFICULTY_GAP
    DRIFT,          \* how far in the future a block may be: two hours
    Fees,           \* the fees of the pool's transactions
    None,           \* no template
    Starts,         \* the heights a behaviour starts from
    MaxBlocks,      \* bound: new tips
    MaxTime,        \* bound: the clock
    MaxStepsBack    \* bound: times the adjusted clock is set back

ASSUME MiningAssumption ==
    /\ EmergencyDiffForkHeight \in Nat /\ GAP \in Nat /\ DRIFT \in Nat
    /\ Fees \subseteq Nat /\ Starts \subseteq Nat
    /\ MaxBlocks \in Nat /\ MaxTime \in Nat /\ MaxStepsBack \in Nat

VARIABLES
    tip,        \* chainActive.Tip(), and the work the chain asks of the next block
    now,        \* GetAdjustedTime()
    haveKey,    \* the wallet can sign for the Conclave
    gbt,        \* getblocktemplate's pblocktemplate
    work,       \* what it served last, as the pool has it
    pc,         \* where the thread is
    pindexPrev, \* the tip it has read
    pblock,     \* the block it hashes
    stepsBack   \* times the clock was set back

gbtVars == <<gbt, work>>
minerVars == <<pc, pindexPrev, pblock>>
vars == <<tip, now, haveKey, gbtVars, minerVars, stepsBack>>

BITS == {"lwma", "limit"} \* the retargeted work, and ProofOfWorkLimit()

(* id tells the blocks of the chain apart: hash and hashPrevBlock.          *)
Tips == [id : 0 .. MaxBlocks, nHeight : Nat, nTime : Int, mtp : Int, next : BITS, sig : BOOLEAN]

Later(a, b) == IF a > b THEN a ELSE b

-----------------------------------------------------------------------------
(* Validation.                                                             *)

EmergencyDifficultyEligible(t, time) ==
    /\ t.nHeight + 1 >= EmergencyDiffForkHeight
    /\ ~IsInSignedWindow(t.nHeight + 1)
    /\ time - t.nTime > GAP

(* OffSigningHash: the message is the previous block, the height and the    *)
(* transactions, without the coinbase's scriptSig.                         *)
SigningMessage(b, h) == [prev |-> b.prev, nHeight |-> h, txs |-> b.txs]

CheckConclaveSignature(b, h) ==
    b.sig = {SigningMessage(b, h)}

(* CheckBlock, and ConnectBlock on top of t; fJustCheck is CreateNewBlock's. *)
ConnectBlock(b, t, fJustCheck) ==
    LET h == t.nHeight + 1 IN
    /\ b.nTime <= now + DRIFT
    /\ b.txs.miner + b.txs.treasury <= GetBlockValue(h, b.txs.nFees)
    /\ IsAfterRestorationFork(h) =>
          /\ b.txs.treasury = GetTreasurySubsidy(h) + GetTitheAmount(h)
          /\ ~fJustCheck /\ IsInSignedWindow(h) => CheckConclaveSignature(b, h)

(* AcceptBlock and ConnectBlock of a block on the tip.                     *)
Acceptable(b) ==
    /\ b.prev = tip.id
    /\ \/ b.nBits = tip.next
       \/ b.nBits = "limit" /\ EmergencyDifficultyEligible(tip, b.nTime)
    /\ b.nTime > tip.mtp
    /\ b.cbHeight = tip.nHeight + 1
    /\ ConnectBlock(b, tip, FALSE)

-----------------------------------------------------------------------------
(* Making a block.                                                         *)

UpdateTime(t) == Later(t.mtp + 1, now)

GetNextWorkRequiredForMining(t, time) ==
    IF EmergencyDifficultyEligible(t, time) THEN "limit" ELSE t.next

(* What the coinbase pays, and the fees it takes. *)
Payment(h, nFees) ==
    [miner |-> GetMinerSubsidy(h, nFees), nFees |-> nFees,
     treasury |-> IF IsAfterRestorationFork(h)
                  THEN GetTreasurySubsidy(h) + GetTitheAmount(h) ELSE 0]

(* CreateNewBlock; the coinbase has no height yet, and no signature in the  *)
(* output it may have for one.                                             *)
NewBlock(nFees) ==
    LET h == tip.nHeight + 1
        time == UpdateTime(tip)
    IN  [prev |-> tip.id, nTime |-> time, nBits |-> GetNextWorkRequiredForMining(tip, time),
         txs |-> Payment(h, nFees), cbHeight |-> 0,
         sigOut |-> IsAfterRestorationFork(h) /\ IsInSignedWindow(h), sig |-> {},
         built |-> time]

(* IncrementExtraNonce, or BuildPoolCoinbase: the coinbase gets its height. *)
WithHeight(b, h) == [b EXCEPT !.cbHeight = h]

(* Mutant: the height signed is the tip's. *)
SignedForTip(b, h) ==
    IF IsInSignedWindow(h) /\ haveKey /\ b.sigOut
    THEN [b EXCEPT !.sig = {SigningMessage(b, h - 1)}] ELSE b

(* SignBlockIfNeeded's answer, and the block after it. *)
CanSign(b, h) == IsInSignedWindow(h) => haveKey /\ b.sigOut
Signed(b, h) ==
    IF IsInSignedWindow(h) /\ haveKey /\ b.sigOut
    THEN [b EXCEPT !.sig = {SigningMessage(b, h)}] ELSE b

-----------------------------------------------------------------------------
Init ==
    /\ \E h \in Starts, mtp \in {-1, 0}, next \in BITS :
          tip = [id |-> 0, nHeight |-> h, nTime |-> 0, mtp |-> mtp, next |-> next,
                 sig |-> IsAfterRestorationFork(h) /\ IsInSignedWindow(h)]
    /\ now = 0 /\ haveKey = TRUE
    /\ gbt = None /\ work = None
    /\ pc \in {"top", "off"} /\ pindexPrev = None /\ pblock = None
    /\ stepsBack = 0

(* A block becomes the tip.  Its MTP is between the last one and its time;  *)
(* bound: one of the two.  Bound: it does not ask for the limit itself.    *)
NewTip(nHeight, time, sig) ==
    /\ tip.id < MaxBlocks
    /\ \E mtp \in {tip.mtp, time} :
          tip' = [id |-> tip.id + 1, nHeight |-> nHeight, nTime |-> time, mtp |-> mtp,
                  next |-> "lwma", sig |-> sig]

(* ProcessBlock of a block the node itself has made.                       *)
ProcessBlock(b) ==
    IF Acceptable(b)
    THEN NewTip(tip.nHeight + 1, b.nTime, CheckConclaveSignature(b, tip.nHeight + 1))
    ELSE UNCHANGED tip

(* ConnectBlock's rule of the Conclave, for a block of the network.        *)
SignatureEnforced(h, sig) == IsAfterRestorationFork(h) /\ IsInSignedWindow(h) => sig

(* A block of the network, on the tip or in place of it.                   *)
ReceiveBlock ==
    /\ \E h \in {tip.nHeight, tip.nHeight + 1}, sig \in BOOLEAN :
       \E time \in tip.mtp + 1 .. now + DRIFT :
          /\ SignatureEnforced(h, sig) /\ (sig => IsInSignedWindow(h))
          /\ NewTip(h, time, sig)
    /\ UNCHANGED <<now, haveKey, gbtVars, minerVars, stepsBack>>

(* Mutant: an open emergency window rebuilds nothing. *)
RebuildOnNewTip(fUpdated) == gbt = None \/ gbt.prev # tip.id \/ fUpdated

Rebuild(fUpdated) ==
    \/ gbt = None \/ gbt.prev # tip.id
    \/ gbt.nBits # "limit" /\ EmergencyDifficultyEligible(tip, now)
    \/ fUpdated

(* The reply of getblocktemplate, which also stays as pblocktemplate.      *)
Serve(b) ==
    LET h == tip.nHeight + 1
        s == Signed(WithHeight([b EXCEPT !.nTime = UpdateTime(tip)], h), h)
    IN  gbt' = s /\ work' = s

(* getblocktemplate, with -pooladdress.  fUpdated: the memory pool has     *)
(* changed and five seconds are over.  When CreateNewBlock throws, the     *)
(* call fails.  Bound: a pool is there only when the thread is off (they    *)
(* share nothing but the tip, and a block of one is to the other like one   *)
(* of the network).                                                         *)
getblocktemplate ==
    /\ pc = "off"
    /\ \E fUpdated \in BOOLEAN, nFees \in Fees :
          IF ~Rebuild(fUpdated) THEN Serve(gbt)
          ELSE IF ConnectBlock(NewBlock(nFees), tip, TRUE) THEN Serve(NewBlock(nFees))
          ELSE gbt' = None /\ UNCHANGED work
    /\ UNCHANGED <<tip, now, haveKey, minerVars, stepsBack>>

(* The pool has found a block. *)
submitblock ==
    /\ work # None
    /\ ProcessBlock(work)
    /\ UNCHANGED <<now, haveKey, gbtVars, minerVars, stepsBack>>

-----------------------------------------------------------------------------
(* BitcoinMiner.                                                           *)

ReadTip ==
    /\ pc = "top"
    /\ pindexPrev' = tip
    /\ pc' = "create"
    /\ UNCHANGED <<tip, now, haveKey, gbtVars, pblock, stepsBack>>

EndSearch == pc' = "top" /\ pblock' = None /\ pindexPrev' = None

(* CreateNewBlock takes cs_main again.  What it throws ends the thread;    *)
(* without a signature the thread pauses and starts over.                  *)
MinerCreate ==
    /\ pc = "create"
    /\ \E nFees \in Fees :
          LET h == pindexPrev.nHeight + 1
              b == WithHeight(NewBlock(nFees), h)
          IN  IF ~ConnectBlock(NewBlock(nFees), tip, TRUE) THEN pc' = "dead" /\ UNCHANGED <<pblock, pindexPrev>>
              ELSE IF ~CanSign(b, h) THEN EndSearch
              ELSE pc' = "search" /\ pblock' = Signed(b, h) /\ UNCHANGED pindexPrev
    /\ UNCHANGED <<tip, now, haveKey, gbtVars, stepsBack>>

(* Mutant: the search goes on with the bits it began with. *)
RestartOnNewTip(time, lockMain) == lockMain /\ pindexPrev # tip

Restart(time, lockMain) ==
    \/ lockMain /\ pindexPrev # tip
    \/ pblock.nBits # "limit" /\ EmergencyDifficultyEligible(pindexPrev, time)

(* The end of an iteration, when nothing was found.  The tip is looked at   *)
(* only if cs_main is free.                                                *)
MinerLook(lockMain) ==
    /\ pc = "search"
    /\ IF Restart(UpdateTime(pindexPrev), lockMain) THEN EndSearch
       ELSE pblock' = [pblock EXCEPT !.nTime = UpdateTime(pindexPrev)] /\ UNCHANGED <<pc, pindexPrev>>
    /\ UNCHANGED <<tip, now, haveKey, gbtVars, stepsBack>>

(* No nonce is left, the peers are gone, or the memory pool has changed.   *)
MinerGiveUp ==
    /\ pc = "search"
    /\ EndSearch
    /\ UNCHANGED <<tip, now, haveKey, gbtVars, stepsBack>>

(* CheckWork, on a solution. *)
CheckWork ==
    /\ pc = "search"
    /\ IF pblock.prev = tip.id THEN ProcessBlock(pblock) ELSE UNCHANGED tip
    /\ EndSearch
    /\ UNCHANGED <<now, haveKey, gbtVars, stepsBack>>

-----------------------------------------------------------------------------
Tick ==
    /\ now < MaxTime
    /\ now' = now + 1
    /\ UNCHANGED <<tip, haveKey, gbtVars, minerVars, stepsBack>>

(* The offset the peers' clocks give changes; bound: by one unit.          *)
SetBack ==
    /\ stepsBack < MaxStepsBack /\ now > 0
    /\ now' = now - 1
    /\ stepsBack' = stepsBack + 1
    /\ UNCHANGED <<tip, haveKey, gbtVars, minerVars>>

(* The wallet is locked or unlocked, where it makes a difference.          *)
LockWallet ==
    /\ IsInSignedWindow(tip.nHeight + 1)
    /\ haveKey' = ~haveKey
    /\ UNCHANGED <<tip, now, gbtVars, minerVars, stepsBack>>

Next ==
    \/ ReceiveBlock
    \/ getblocktemplate
    \/ submitblock
    \/ ReadTip \/ MinerCreate \/ MinerGiveUp \/ CheckWork
    \/ \E lockMain \in BOOLEAN : MinerLook(lockMain)
    \/ Tick \/ SetBack \/ LockWallet

(* Time passes, the thread runs, and a block at the limit is found even    *)
(* when nothing else is: ReceiveBlock and submitblock may never happen.    *)
(* The thread's wait for a first peer, on the main network, is left out.   *)
Fairness ==
    /\ WF_vars(Tick)
    /\ WF_vars(ReadTip) /\ WF_vars(MinerCreate) /\ WF_vars(MinerLook(TRUE))
    /\ SF_vars(CheckWork /\ pblock.nBits = "limit")

Spec == Init /\ [][Next]_vars /\ Fairness

-----------------------------------------------------------------------------
Txs == [miner : Nat, treasury : Nat, nFees : Fees]
Messages == [prev : 0 .. MaxBlocks, nHeight : Nat, txs : Txs]
Blocks == [prev : 0 .. MaxBlocks, nTime : Int, nBits : BITS, txs : Txs, cbHeight : Nat,
           sigOut : BOOLEAN, sig : SUBSET Messages, built : Int]

ASSUME NoneAssumption == None \notin Blocks

TypeOK ==
    /\ tip \in Tips /\ tip.mtp <= tip.nTime
    /\ now \in 0 .. MaxTime /\ haveKey \in BOOLEAN
    /\ gbt \in Blocks \cup {None} /\ work \in Blocks \cup {None}
    /\ pc \in {"off", "top", "create", "search", "dead"}
    /\ pindexPrev \in Tips \cup {None} /\ pblock \in Blocks \cup {None}
    /\ pc = "search" <=> pblock # None
    /\ stepsBack \in 0 .. MaxStepsBack

(* The clock has not gone back behind the time a block was made with, nor   *)
(* so far that the block's time is in the future.                           *)
ClockHeld(b) == b.nTime >= b.built /\ b.nTime <= now + DRIFT

(* What getblocktemplate served is a block the node accepts for as long as  *)
(* the tip stays: its work, time, height, payments and signature, however   *)
(* old the template, and whatever was built, signed and refreshed when. In  *)
(* the window this takes a key, at the last call or an earlier one.  Served *)
(* while the emergency window was open by the clock, it asks for the limit. *)
ServedAcceptable ==
    work # None /\ work.prev = tip.id =>
        /\ ClockHeld(work) /\ (work.sigOut => work.sig # {}) => Acceptable(work)
        /\ EmergencyDifficultyEligible(tip, work.nTime) /\ work.nTime > tip.mtp + 1 => work.nBits = "limit"

(* So is what the thread hashes, provided that the tip it read is the one    *)
(* CreateNewBlock built on.  (In between it may move: the block is lost.)   *)
SearchAcceptable ==
    pblock # None /\ pblock.prev = pindexPrev.id /\ pindexPrev = tip /\ ClockHeld(pblock) =>
        Acceptable(pblock)

(* CreateNewBlock's check of its own block, which ends a call or the thread *)
(* with an exception, fails only when the clock is hours behind the chain.  *)
OwnBlockSound ==
    \A nFees \in Fees :
        tip.mtp + 1 <= now + DRIFT => ConnectBlock(NewBlock(nFees), tip, TRUE)

(* The pay and the page: for the next block of every tip reached.           *)
RitualExact ==
    \A nFees \in Fees : RitualInStepAt(tip.nHeight + 1) /\ SplitExactAt(tip.nHeight + 1, nFees)

(* A stalled chain comes back by the thread alone, outside the window: when *)
(* no block comes for longer than GAP, one at the limit is found.           *)
Stalled(i) ==
    /\ tip.id = i /\ i < MaxBlocks /\ tip.nTime + GAP < MaxTime
    /\ tip.nHeight + 1 >= EmergencyDiffForkHeight /\ ~IsInSignedWindow(tip.nHeight + 1)
    /\ pc \notin {"off", "dead"}

StallEnds == \A i \in 0 .. MaxBlocks : Stalled(i) ~> (tip.id # i \/ pc = "dead")

(* chainparams.h:81: only blocks signed by a Conclave key are valid in the  *)
(* window, the nine before the fork included.                               *)
SignedWindowProtected ==
    tip.id > 0 /\ IsInSignedWindow(tip.nHeight) => tip.sig

=============================================================================
