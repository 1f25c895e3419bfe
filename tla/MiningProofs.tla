---------------------------- MODULE MiningProofs ----------------------------
(* What the node makes, whatever the fork's heights, the clock and the      *)
(* order of calls: TypeOK, and that its own blocks are acceptable.          *)
EXTENDS Mining, RestorationProofs

-----------------------------------------------------------------------------
(* The treasury's share is no more than the subsidy.                        *)
LEMMA ShareBounded ==
    ASSUME NEW p \in Nat, NEW n \in Nat, NEW d \in Nat \ {0}, n <= d
    PROVE  (p * n) \div d \in Nat /\ (p * n) \div d <= p
  <1>1. p * n \in Nat /\ p * n <= p * d
    BY SMT
  <1>2. PICK m \in Nat : m = p * n
    BY <1>1
  <1>3. PICK q \in Int : q = m \div d /\ d * q <= m /\ m < d * q + d
    BY SMT
  <1>4. q >= 0
    BY <1>2, <1>3, SMT
  <1>5. d * q <= d * p
    BY <1>1, <1>2, <1>3, SMT
  <1>6. q <= p
    BY <1>4, <1>5, SMT
  <1> QED
    BY <1>2, <1>3, <1>4, <1>6

LEMMA PayNat ==
    ASSUME NEW h \in Nat, NEW nFees \in Nat
    PROVE  /\ GetTreasurySubsidy(h) \in Nat /\ GetTreasurySubsidy(h) <= PostForkSubsidy
           /\ GetTitheAmount(h) \in Nat /\ GetBlockValue(h, nFees) \in Nat
           /\ GetMinerSubsidy(h, nFees) \in Nat
  <1>1. GetTreasurySubsidy(h) \in Nat /\ GetTreasurySubsidy(h) <= PostForkSubsidy
    BY ShareBounded, RestorationAssumption DEF GetTreasurySubsidy
  <1>2. GetTitheAmount(h) \in Nat /\ RitualBonus(h) \in Nat /\ PostForkSubsidy \in Nat /\ PreForkSubsidy \in Nat
    BY RitualBonusNat, RestorationAssumption DEF GetTitheAmount
  <1>3. GetBlockValue(h, nFees) \in Nat
    BY <1>2 DEF GetBlockValue
  <1>4. GetMinerSubsidy(h, nFees) \in Nat
    BY <1>1, <1>2, <1>3 DEF GetMinerSubsidy
  <1> QED
    BY <1>1, <1>2, <1>3, <1>4

LEMMA PaymentType ==
    ASSUME NEW h \in Nat, NEW nFees \in Fees
    PROVE  /\ Payment(h, nFees) \in Txs
           /\ Payment(h, nFees).miner = GetMinerSubsidy(h, nFees)
           /\ Payment(h, nFees).nFees = nFees
           /\ Payment(h, nFees).treasury =
                 IF IsAfterRestorationFork(h) THEN GetTreasurySubsidy(h) + GetTitheAmount(h) ELSE 0
  <1> DEFINE t == IF IsAfterRestorationFork(h) THEN GetTreasurySubsidy(h) + GetTitheAmount(h) ELSE 0
             m == GetMinerSubsidy(h, nFees)
  <1>1. nFees \in Nat
    BY MiningAssumption
  <1>2. t \in Nat /\ m \in Nat
    <2>1. GetTreasurySubsidy(h) \in Nat /\ GetTitheAmount(h) \in Nat /\ GetMinerSubsidy(h, nFees) \in Nat
      BY <1>1, PayNat
    <2>2. GetTreasurySubsidy(h) + GetTitheAmount(h) \in Nat
      BY <2>1
    <2> QED
      BY <2>1, <2>2
  <1>3. Payment(h, nFees) = [miner |-> m, nFees |-> nFees, treasury |-> t]
    BY DEF Payment
  <1> HIDE DEF t, m
  <1>4. Payment(h, nFees) \in Txs
    BY <1>2, <1>3 DEF Txs
  <1>5. Payment(h, nFees).miner = m /\ Payment(h, nFees).nFees = nFees /\ Payment(h, nFees).treasury = t
    BY <1>3
  <1> QED
    BY <1>4, <1>5 DEF t, m

(* What CreateNewBlock pays is what ConnectBlock lets it pay.               *)
LEMMA PaymentAllowed ==
    ASSUME NEW h \in Nat, NEW nFees \in Fees
    PROVE  /\ Payment(h, nFees).miner + Payment(h, nFees).treasury
                 <= GetBlockValue(h, Payment(h, nFees).nFees)
           /\ IsAfterRestorationFork(h) =>
                 Payment(h, nFees).treasury = GetTreasurySubsidy(h) + GetTitheAmount(h)
  <1> DEFINE pay == Payment(h, nFees)
             m == GetMinerSubsidy(h, nFees)
             s == GetTreasurySubsidy(h)
             t == GetTitheAmount(h)
             v == GetBlockValue(h, nFees)
  <1>1. nFees \in Nat
    BY MiningAssumption
  <1>2. m \in Nat /\ s \in Nat /\ t \in Nat /\ v \in Nat
    BY <1>1, PayNat
  <1>3. /\ pay.miner = m /\ pay.nFees = nFees
        /\ pay.treasury = IF IsAfterRestorationFork(h) THEN s + t ELSE 0
    BY PaymentType
  <1>4. IsAfterRestorationFork(h) => m + s + t = v
    BY <1>1, SplitExact DEF SplitExactAt
  <1>5. ~IsAfterRestorationFork(h) => m = v
    BY DEF GetMinerSubsidy
  <1>6. GetBlockValue(h, pay.nFees) = v
    BY <1>3
  <1> HIDE DEF pay, m, s, t, v
  <1>7. /\ pay.miner + pay.treasury <= v
        /\ IsAfterRestorationFork(h) => pay.treasury = s + t
    BY <1>2, <1>3, <1>4, <1>5
  <1> QED
    BY <1>6, <1>7 DEF pay, s, t

-----------------------------------------------------------------------------
(* The block CreateNewBlock returns. *)
LEMMA NewBlockIs ==
    ASSUME tip \in Tips, now \in Int, NEW nFees \in Fees
    PROVE  LET h == tip.nHeight + 1 IN
           /\ NewBlock(nFees) \in Blocks
           /\ NewBlock(nFees).prev = tip.id
           /\ NewBlock(nFees).txs = Payment(h, nFees)
           /\ NewBlock(nFees).sig = {}
           /\ NewBlock(nFees).sigOut = (IsAfterRestorationFork(h) /\ IsInSignedWindow(h))
           /\ NewBlock(nFees).nTime = UpdateTime(tip) /\ NewBlock(nFees).built = UpdateTime(tip)
           /\ NewBlock(nFees).nBits = GetNextWorkRequiredForMining(tip, UpdateTime(tip))
  <1> DEFINE h == tip.nHeight + 1
             time == UpdateTime(tip)
             bits == GetNextWorkRequiredForMining(tip, time)
             so == (IsAfterRestorationFork(h) /\ IsInSignedWindow(h))
             pay == Payment(h, nFees)
  <1>1. h \in Nat /\ tip.id \in 0 .. MaxBlocks
    BY DEF Tips
  <1>2. time \in Int
    BY DEF UpdateTime, Later, Tips
  <1>3. bits \in BITS
    BY DEF GetNextWorkRequiredForMining, Tips, BITS
  <1>4. pay \in Txs
    BY <1>1, PaymentType
  <1>5. so \in BOOLEAN
    BY DEF IsAfterRestorationFork, IsInSignedWindow
  <1>6. NewBlock(nFees) = [prev |-> tip.id, nTime |-> time, nBits |-> bits, txs |-> pay,
                           cbHeight |-> 0, sigOut |-> so, sig |-> {}, built |-> time]
    BY DEF NewBlock
  <1> HIDE DEF h, time, bits, so, pay
  <1>7. {} \in SUBSET Messages
    OBVIOUS
  <1>8. NewBlock(nFees) \in Blocks
    BY <1>1, <1>2, <1>3, <1>4, <1>5, <1>6, <1>7 DEF Blocks
  <1>9. QED
    BY <1>6, <1>8 DEF h, time, bits, so, pay

(* SignBlockIfNeeded changes the signature only, and signs this block.      *)
LEMMA SignedIs ==
    ASSUME NEW b \in Blocks, NEW h \in Nat
    PROVE  /\ Signed(b, h) \in Blocks
           /\ Signed(b, h).prev = b.prev /\ Signed(b, h).nTime = b.nTime
           /\ Signed(b, h).nBits = b.nBits /\ Signed(b, h).txs = b.txs
           /\ Signed(b, h).cbHeight = b.cbHeight /\ Signed(b, h).sigOut = b.sigOut
           /\ Signed(b, h).built = b.built
           /\ Signed(b, h).sig = b.sig \/ Signed(b, h).sig = {SigningMessage(b, h)}
           /\ IsInSignedWindow(h) /\ haveKey /\ b.sigOut =>
                 Signed(b, h).sig = {SigningMessage(b, h)}
  <1> DEFINE msg == SigningMessage(b, h)
  <1>1. msg \in Messages
    BY DEF SigningMessage, Messages, Blocks
  <1>2. {msg} \in SUBSET Messages
    BY <1>1
  <1> HIDE DEF msg
  <1>3. CASE IsInSignedWindow(h) /\ haveKey /\ b.sigOut
    <2>1. Signed(b, h) = [b EXCEPT !.sig = {msg}]
      BY <1>3 DEF Signed, msg
    <2> QED
      BY <1>2, <2>1 DEF Blocks, msg
  <1>4. CASE ~(IsInSignedWindow(h) /\ haveKey /\ b.sigOut)
    BY <1>4 DEF Signed
  <1> QED
    BY <1>3, <1>4

LEMMA WithHeightIs ==
    ASSUME NEW b \in Blocks, NEW h \in Nat
    PROVE  /\ WithHeight(b, h) \in Blocks
           /\ WithHeight(b, h).prev = b.prev /\ WithHeight(b, h).nTime = b.nTime
           /\ WithHeight(b, h).nBits = b.nBits /\ WithHeight(b, h).txs = b.txs
           /\ WithHeight(b, h).cbHeight = h /\ WithHeight(b, h).sigOut = b.sigOut
           /\ WithHeight(b, h).built = b.built /\ WithHeight(b, h).sig = b.sig
  BY DEF WithHeight, Blocks

LEMMA WithTimeIs ==
    ASSUME NEW b \in Blocks, NEW t \in Int
    PROVE  LET c == [b EXCEPT !.nTime = t] IN
           /\ c \in Blocks
           /\ c.prev = b.prev /\ c.nTime = t
           /\ c.nBits = b.nBits /\ c.txs = b.txs
           /\ c.cbHeight = b.cbHeight /\ c.sigOut = b.sigOut
           /\ c.built = b.built /\ c.sig = b.sig
  BY DEF Blocks

-----------------------------------------------------------------------------
(* The invariant.                                                           *)

TipOK == tip \in Tips /\ tip.mtp <= tip.nTime /\ now \in 0 .. MaxTime

(* b is a block CreateNewBlock has built on t: only its time, its height    *)
(* and its signature may have changed since.                                *)
MadeFor(b, t) ==
    LET h == t.nHeight + 1 IN
    /\ b.txs \in {Payment(h, nFees) : nFees \in Fees}
    /\ b.sigOut = (IsAfterRestorationFork(h) /\ IsInSignedWindow(h))
    /\ b.sig = {} \/ b.sig = {SigningMessage(b, h)}
    /\ b.nBits = t.next \/ (b.nBits = "limit" /\ EmergencyDifficultyEligible(t, b.built))
    /\ b.cbHeight = h
    /\ b.nTime > t.mtp

(* What getblocktemplate keeps or has served. *)
TemplateOK(b) ==
    b # None =>
        /\ b \in Blocks /\ b.prev <= tip.id
        /\ b.prev = tip.id => MadeFor(b, tip)

(* The last conjunct of ServedAcceptable. *)
WorkEmergency ==
    work # None /\ work.prev = tip.id =>
        (EmergencyDifficultyEligible(tip, work.nTime) /\ work.nTime > tip.mtp + 1 => work.nBits = "limit")

PindexOK == pc \in {"create", "search"} => pindexPrev \in Tips /\ pindexPrev.id <= tip.id

SearchOK ==
    pblock # None =>
        /\ pc = "search" /\ pblock \in Blocks /\ pblock.prev <= tip.id
        /\ pindexPrev = tip /\ pblock.prev = pindexPrev.id =>
              MadeFor(pblock, tip) /\ (pblock.sigOut => pblock.sig # {})

(* The rest of TypeOK. *)
RestOK ==
    /\ haveKey \in BOOLEAN
    /\ pc \in {"off", "top", "create", "search", "dead"}
    /\ pindexPrev \in Tips \cup {None}
    /\ pc = "search" => pblock # None
    /\ stepsBack \in 0 .. MaxStepsBack

IInv == TipOK /\ TemplateOK(gbt) /\ TemplateOK(work) /\ WorkEmergency /\ PindexOK /\ SearchOK /\ RestOK

-----------------------------------------------------------------------------
(* What the invariant gives. *)

(* A block made for the tip is one the node accepts.                        *)
LEMMA MadeAcceptable ==
    ASSUME TipOK, NEW b \in Blocks, b.prev = tip.id, MadeFor(b, tip), ClockHeld(b),
           b.sigOut => b.sig # {}
    PROVE  Acceptable(b)
  <1> DEFINE h == tip.nHeight + 1
  <1>1. h \in Nat /\ tip.nTime \in Int
    BY DEF TipOK, Tips
  <1>2. PICK nFees \in Fees : b.txs = Payment(h, nFees)
    BY DEF MadeFor
  <1>3. /\ b.txs.miner + b.txs.treasury <= GetBlockValue(h, b.txs.nFees)
        /\ IsAfterRestorationFork(h) =>
              b.txs.treasury = GetTreasurySubsidy(h) + GetTitheAmount(h)
    BY <1>1, <1>2, PaymentAllowed
  <1>4. IsAfterRestorationFork(h) /\ IsInSignedWindow(h) => CheckConclaveSignature(b, h)
    BY DEF MadeFor, CheckConclaveSignature
  <1>5. ConnectBlock(b, tip, FALSE)
    BY <1>3, <1>4 DEF ConnectBlock, ClockHeld
  <1>6. b.nBits = tip.next \/ (b.nBits = "limit" /\ EmergencyDifficultyEligible(tip, b.nTime))
    <2>1. b.nTime \in Int /\ b.built \in Int /\ b.nTime >= b.built /\ GAP \in Int
      BY MiningAssumption DEF Blocks, ClockHeld
    <2>2. EmergencyDifficultyEligible(tip, b.built) => EmergencyDifficultyEligible(tip, b.nTime)
      BY <1>1, <2>1 DEF EmergencyDifficultyEligible
    <2> QED
      BY <2>2 DEF MadeFor
  <1> QED
    BY <1>5, <1>6 DEF Acceptable, MadeFor

LEMMA InvServed == IInv => ServedAcceptable
  <1> SUFFICES ASSUME IInv, work # None, work.prev = tip.id PROVE
           /\ ClockHeld(work) /\ (work.sigOut => work.sig # {}) => Acceptable(work)
           /\ EmergencyDifficultyEligible(tip, work.nTime) /\ work.nTime > tip.mtp + 1 => work.nBits = "limit"
    BY DEF ServedAcceptable
  <1>1. TipOK /\ work \in Blocks /\ MadeFor(work, tip)
    BY DEF IInv, TemplateOK
  <1>2. WorkEmergency
    BY DEF IInv
  <1>3. ClockHeld(work) /\ (work.sigOut => work.sig # {}) => Acceptable(work)
    BY <1>1, MadeAcceptable
  <1> QED
    BY <1>2, <1>3 DEF WorkEmergency

LEMMA InvSearch == IInv => SearchAcceptable
  <1> SUFFICES ASSUME IInv, pblock # None, pblock.prev = pindexPrev.id, pindexPrev = tip, ClockHeld(pblock)
               PROVE  Acceptable(pblock)
    BY DEF SearchAcceptable
  <1>1. TipOK /\ pblock \in Blocks /\ MadeFor(pblock, tip) /\ (pblock.sigOut => pblock.sig # {})
    BY DEF IInv, SearchOK
  <1> QED
    BY <1>1, MadeAcceptable

LEMMA InvOwn == IInv => OwnBlockSound
  <1> SUFFICES ASSUME IInv, NEW nFees \in Fees, tip.mtp + 1 <= now + DRIFT
               PROVE  ConnectBlock(NewBlock(nFees), tip, TRUE)
    BY DEF OwnBlockSound
  <1> DEFINE h == tip.nHeight + 1
             b == NewBlock(nFees)
  <1>1. TipOK /\ tip \in Tips /\ now \in Int /\ h \in Nat /\ tip.mtp \in Int /\ DRIFT \in Nat
    BY MiningAssumption DEF IInv, TipOK, Tips
  <1>2. b.nTime = UpdateTime(tip) /\ b.txs = Payment(h, nFees)
    BY <1>1, NewBlockIs
  <1>3. b.nTime <= now + DRIFT
    BY <1>1, <1>2 DEF UpdateTime, Later
  <1>4. /\ b.txs.miner + b.txs.treasury <= GetBlockValue(h, b.txs.nFees)
        /\ IsAfterRestorationFork(h) =>
              b.txs.treasury = GetTreasurySubsidy(h) + GetTitheAmount(h)
    BY <1>1, <1>2, PaymentAllowed
  <1> HIDE DEF b
  <1>5. ConnectBlock(b, tip, TRUE)
    BY <1>3, <1>4 DEF ConnectBlock
  <1> QED
    BY <1>5 DEF b

LEMMA InvRitual == IInv => RitualExact
  <1> SUFFICES ASSUME IInv, NEW nFees \in Fees
               PROVE  RitualInStepAt(tip.nHeight + 1) /\ SplitExactAt(tip.nHeight + 1, nFees)
    BY DEF RitualExact
  <1>1. tip.nHeight + 1 \in Nat /\ nFees \in Nat
    BY MiningAssumption DEF IInv, TipOK, Tips
  <1> QED
    BY <1>1, RitualInStep, SplitExact

LEMMA InvType == IInv => TypeOK
  <1> SUFFICES ASSUME IInv PROVE TypeOK
    OBVIOUS
  <1>1. gbt \in Blocks \cup {None} /\ work \in Blocks \cup {None}
    BY DEF IInv, TemplateOK
  <1>2. pblock \in Blocks \cup {None} /\ (pc = "search" <=> pblock # None)
    BY DEF IInv, SearchOK, RestOK
  <1> QED
    BY <1>1, <1>2 DEF TypeOK, IInv, TipOK, RestOK

-----------------------------------------------------------------------------
(* It holds at first.                                                       *)
LEMMA InitInv == Init => IInv
  <1> SUFFICES ASSUME Init PROVE IInv
    OBVIOUS
  <1>1. PICK h \in Starts, mtp \in {-1, 0}, next \in BITS :
            tip = [id |-> 0, nHeight |-> h, nTime |-> 0, mtp |-> mtp, next |-> next,
                   sig |-> IsAfterRestorationFork(h) /\ IsInSignedWindow(h)]
    BY DEF Init
  <1>2. h \in Nat /\ mtp \in Int /\ mtp <= 0 /\ 0 \in 0 .. MaxBlocks /\ 0 \in 0 .. MaxTime
        /\ 0 \in 0 .. MaxStepsBack
    BY MiningAssumption
  <1>3. tip \in Tips /\ tip.mtp <= tip.nTime
    <2> DEFINE s == (IsAfterRestorationFork(h) /\ IsInSignedWindow(h))
    <2>1. s \in BOOLEAN
      BY DEF IsAfterRestorationFork, IsInSignedWindow
    <2>2. tip = [id |-> 0, nHeight |-> h, nTime |-> 0, mtp |-> mtp, next |-> next, sig |-> s]
      BY <1>1
    <2> HIDE DEF s
    <2> QED
      BY <1>2, <2>1, <2>2 DEF Tips
  <1>4. TipOK
    BY <1>2, <1>3 DEF TipOK, Init
  <1>5. RestOK
    BY <1>2 DEF RestOK, Init
  <1> QED
    BY <1>4, <1>5 DEF IInv, TemplateOK, WorkEmergency, PindexOK, SearchOK, Init

-----------------------------------------------------------------------------
(* What a step of one part leaves of the others.                            *)

TipMoves == tip' = tip \/ tip'.id > tip.id

LEMMA TemplatesKept ==
    ASSUME IInv, TipOK', TipMoves, UNCHANGED gbtVars
    PROVE  TemplateOK(gbt)' /\ TemplateOK(work)' /\ WorkEmergency'
  <1>1. tip.id \in Int /\ tip'.id \in Int /\ gbt' = gbt /\ work' = work
    BY DEF IInv, TipOK, Tips, gbtVars
  <1>2. TemplateOK(gbt) /\ TemplateOK(work) /\ WorkEmergency
    BY DEF IInv
  <1>3. \A b \in Blocks : b.prev \in Int
    BY DEF Blocks
  <1>4. CASE tip' = tip
    BY <1>1, <1>2, <1>4 DEF TemplateOK, WorkEmergency
  <1>5. CASE tip'.id > tip.id
    <2>1. ASSUME NEW b \in Blocks, b.prev <= tip.id PROVE b.prev <= tip'.id /\ b.prev # tip'.id
      BY <1>1, <1>3, <1>5, <2>1
    <2>2. gbt # None => gbt \in Blocks /\ gbt.prev <= tip.id
      BY <1>2 DEF TemplateOK
    <2>3. work # None => work \in Blocks /\ work.prev <= tip.id
      BY <1>2 DEF TemplateOK
    <2> QED
      BY <1>1, <2>1, <2>2, <2>3 DEF TemplateOK, WorkEmergency
  <1> QED
    BY <1>4, <1>5 DEF TipMoves

LEMMA MinerKept ==
    ASSUME IInv, TipOK', TipMoves, UNCHANGED minerVars
    PROVE  PindexOK' /\ SearchOK'
  <1>1. tip.id \in Int /\ tip'.id \in Int /\ pc' = pc /\ pindexPrev' = pindexPrev /\ pblock' = pblock
    BY DEF IInv, TipOK, Tips, minerVars
  <1>2. PindexOK /\ SearchOK
    BY DEF IInv
  <1>3. CASE tip' = tip
    BY <1>1, <1>2, <1>3 DEF PindexOK, SearchOK
  <1>4. CASE tip'.id > tip.id
    <2>1. pc \in {"create", "search"} => pindexPrev # tip' /\ pindexPrev.id <= tip'.id
      <3> SUFFICES ASSUME pc \in {"create", "search"} PROVE pindexPrev # tip' /\ pindexPrev.id <= tip'.id
        OBVIOUS
      <3>1. pindexPrev \in Tips /\ pindexPrev.id <= tip.id /\ pindexPrev.id \in Int
        BY <1>2 DEF PindexOK, Tips
      <3> QED
        BY <1>1, <1>4, <3>1
    <2>2. PindexOK'
      BY <1>1, <1>2, <2>1 DEF PindexOK
    <2>3. pblock # None => pc = "search" /\ pblock \in Blocks /\ pblock.prev <= tip'.id
      <3> SUFFICES ASSUME pblock # None PROVE pc = "search" /\ pblock \in Blocks /\ pblock.prev <= tip'.id
        OBVIOUS
      <3>1. pc = "search" /\ pblock \in Blocks /\ pblock.prev <= tip.id
        BY <1>2 DEF SearchOK
      <3>2. pblock.prev \in Int
        BY <3>1 DEF Blocks
      <3> QED
        BY <1>1, <1>4, <3>1, <3>2
    <2>4. SearchOK'
      BY <1>1, <2>1, <2>3 DEF SearchOK
    <2> QED
      BY <2>2, <2>4
  <1> QED
    BY <1>3, <1>4 DEF TipMoves

LEMMA MinerStops == ASSUME EndSearch PROVE PindexOK' /\ SearchOK'
  BY DEF EndSearch, PindexOK, SearchOK

-----------------------------------------------------------------------------
(* New tips.                                                                *)

LEMMA NewTipOK ==
    ASSUME IInv, NEW h \in Nat, NEW time \in Int, NEW sig \in BOOLEAN,
           NewTip(h, time, sig), time > tip.mtp, now' = now
    PROVE  TipOK' /\ TipMoves
  <1>1. PICK mtp \in {tip.mtp, time} :
            tip' = [id |-> tip.id + 1, nHeight |-> h, nTime |-> time, mtp |-> mtp,
                    next |-> "lwma", sig |-> sig]
    BY DEF NewTip
  <1>2. tip.id \in 0 .. MaxBlocks /\ tip.id < MaxBlocks /\ tip.mtp \in Int /\ MaxBlocks \in Nat
    BY MiningAssumption DEF IInv, TipOK, Tips, NewTip
  <1>3. mtp \in Int /\ mtp <= time /\ tip.id + 1 \in 0 .. MaxBlocks /\ "lwma" \in BITS
    BY <1>2 DEF BITS
  <1>4. tip' \in Tips
    BY <1>1, <1>3 DEF Tips
  <1>5. tip'.mtp <= tip'.nTime /\ tip'.id = tip.id + 1
    BY <1>1, <1>3
  <1> QED
    BY <1>2, <1>4, <1>5 DEF TipOK, TipMoves, IInv

LEMMA ProcessBlockOK ==
    ASSUME IInv, NEW b \in Blocks, ProcessBlock(b), now' = now
    PROVE  TipOK' /\ TipMoves
  <1>1. tip.nHeight + 1 \in Nat /\ b.nTime \in Int
    BY DEF IInv, TipOK, Tips, Blocks
  <1>2. CheckConclaveSignature(b, tip.nHeight + 1) \in BOOLEAN
    BY DEF CheckConclaveSignature
  <1>3. CASE Acceptable(b)
    <2>1. NewTip(tip.nHeight + 1, b.nTime, CheckConclaveSignature(b, tip.nHeight + 1)) /\ b.nTime > tip.mtp
      BY <1>3 DEF ProcessBlock, Acceptable
    <2> QED
      BY <1>1, <1>2, <2>1, NewTipOK
  <1>4. CASE ~Acceptable(b)
    BY <1>4 DEF ProcessBlock, TipOK, TipMoves, IInv
  <1> QED
    BY <1>3, <1>4

LEMMA ReceiveBlockInv == ASSUME IInv, ReceiveBlock PROVE IInv'
  <1>1. PICK h \in {tip.nHeight, tip.nHeight + 1}, sig \in BOOLEAN :
        \E time \in tip.mtp + 1 .. now + DRIFT : NewTip(h, time, sig)
    BY DEF ReceiveBlock
  <1>2. PICK time \in tip.mtp + 1 .. now + DRIFT : NewTip(h, time, sig)
    BY <1>1
  <1>3. tip.mtp \in Int /\ now \in Int /\ DRIFT \in Int /\ h \in Nat
    BY MiningAssumption DEF IInv, TipOK, Tips
  <1>4. time \in Int /\ time > tip.mtp
    BY <1>3
  <1>5. UNCHANGED <<now, haveKey, gbtVars, minerVars, stepsBack>>
    BY DEF ReceiveBlock
  <1>6. TipOK' /\ TipMoves
    BY <1>2, <1>3, <1>4, <1>5, NewTipOK
  <1>7. TemplateOK(gbt)' /\ TemplateOK(work)' /\ WorkEmergency' /\ PindexOK' /\ SearchOK'
    BY <1>5, <1>6, TemplatesKept, MinerKept
  <1>8. RestOK'
    BY <1>5 DEF IInv, RestOK, minerVars
  <1> QED
    BY <1>6, <1>7, <1>8 DEF IInv

LEMMA submitblockInv == ASSUME IInv, submitblock PROVE IInv'
  <1>1. work \in Blocks /\ ProcessBlock(work) /\ UNCHANGED <<now, haveKey, gbtVars, minerVars, stepsBack>>
    BY DEF submitblock, IInv, TemplateOK
  <1>2. TipOK' /\ TipMoves
    BY <1>1, ProcessBlockOK
  <1>3. TemplateOK(gbt)' /\ TemplateOK(work)' /\ WorkEmergency' /\ PindexOK' /\ SearchOK'
    BY <1>1, <1>2, TemplatesKept, MinerKept
  <1>4. RestOK'
    BY <1>1 DEF IInv, RestOK, minerVars
  <1> QED
    BY <1>2, <1>3, <1>4 DEF IInv

LEMMA CheckWorkInv == ASSUME IInv, CheckWork PROVE IInv'
  <1>1. pblock \in Blocks /\ EndSearch /\ UNCHANGED <<now, haveKey, gbtVars, stepsBack>>
    BY DEF CheckWork, IInv, SearchOK, RestOK
  <1>2. ProcessBlock(pblock) \/ tip' = tip
    BY DEF CheckWork
  <1>3. TipOK' /\ TipMoves
    <2>1. CASE ProcessBlock(pblock)
      BY <1>1, <2>1, ProcessBlockOK
    <2>2. CASE tip' = tip
      BY <1>1, <2>2 DEF TipOK, TipMoves, IInv
    <2> QED
      BY <1>2, <2>1, <2>2
  <1>4. TemplateOK(gbt)' /\ TemplateOK(work)' /\ WorkEmergency' /\ PindexOK' /\ SearchOK'
    BY <1>1, <1>3, TemplatesKept, MinerStops
  <1>5. RestOK'
    BY <1>1 DEF IInv, RestOK, EndSearch
  <1> QED
    BY <1>3, <1>4, <1>5 DEF IInv

-----------------------------------------------------------------------------
(* getblocktemplate.                                                        *)

(* A template of the tip stays one when its time is brought up to date, its *)
(* height put in and the block signed; made in an open emergency window, or *)
(* kept by Rebuild, it asks for the limit.                                  *)
LEMMA ServeOK ==
    ASSUME IInv, NEW b \in Blocks, b.prev = tip.id, Serve(b), UNCHANGED tip,
           \E nFees \in Fees : b.txs = Payment(tip.nHeight + 1, nFees),
           b.sigOut = (IsAfterRestorationFork(tip.nHeight + 1) /\ IsInSignedWindow(tip.nHeight + 1)),
           b.sig = {} \/ b.sig = {SigningMessage(b, tip.nHeight + 1)},
           b.nBits = tip.next \/ (b.nBits = "limit" /\ EmergencyDifficultyEligible(tip, b.built)),
           EmergencyDifficultyEligible(tip, now) /\ now > tip.mtp + 1 => b.nBits = "limit"
    PROVE  TemplateOK(gbt)' /\ TemplateOK(work)' /\ WorkEmergency'
  <1> DEFINE h == tip.nHeight + 1
             t == UpdateTime(tip)
             c == [b EXCEPT !.nTime = t]
             d == WithHeight(c, h)
             s == Signed(d, h)
  <1>1. h \in Nat /\ tip.mtp \in Int /\ now \in Int /\ tip.id \in Int
    BY DEF IInv, TipOK, Tips
  <1>2. t \in Int /\ t > tip.mtp /\ (t > tip.mtp + 1 => t = now)
    BY <1>1 DEF UpdateTime, Later
  <1> HIDE DEF t
  <1>3. /\ c \in Blocks /\ c.prev = b.prev /\ c.nTime = t /\ c.nBits = b.nBits /\ c.txs = b.txs
        /\ c.sigOut = b.sigOut /\ c.built = b.built /\ c.sig = b.sig
    BY <1>2, WithTimeIs
  <1> HIDE DEF c
  <1>4. /\ d \in Blocks /\ d.prev = c.prev /\ d.nTime = c.nTime /\ d.nBits = c.nBits /\ d.txs = c.txs
        /\ d.cbHeight = h /\ d.sigOut = c.sigOut /\ d.built = c.built /\ d.sig = c.sig
    BY <1>1, <1>3, WithHeightIs
  <1> HIDE DEF d
  <1>5. /\ s \in Blocks /\ s.prev = d.prev /\ s.nTime = d.nTime /\ s.nBits = d.nBits /\ s.txs = d.txs
        /\ s.cbHeight = d.cbHeight /\ s.sigOut = d.sigOut /\ s.built = d.built
        /\ s.sig = d.sig \/ s.sig = {SigningMessage(d, h)}
    BY <1>1, <1>4, SignedIs
  <1>6. SigningMessage(s, h) = SigningMessage(d, h) /\ SigningMessage(s, h) = SigningMessage(b, h)
    BY <1>3, <1>4, <1>5 DEF SigningMessage
  <1>7. gbt' = s /\ work' = s
    BY DEF Serve, s, d, c, t
  <1> HIDE DEF s
  <1>8. MadeFor(s, tip)
    <2>1. s.txs \in {Payment(h, nFees) : nFees \in Fees}
      BY <1>3, <1>4, <1>5
    <2>2. s.sig = {} \/ s.sig = {SigningMessage(s, h)}
      BY <1>3, <1>4, <1>5, <1>6
    <2>3. s.nTime > tip.mtp /\ s.cbHeight = h
      BY <1>2, <1>3, <1>4, <1>5
    <2>4. s.nBits = tip.next \/ (s.nBits = "limit" /\ EmergencyDifficultyEligible(tip, s.built))
      BY <1>3, <1>4, <1>5
    <2>5. s.sigOut = (IsAfterRestorationFork(h) /\ IsInSignedWindow(h))
      BY <1>3, <1>4, <1>5
    <2> QED
      BY <2>1, <2>2, <2>3, <2>4, <2>5 DEF MadeFor
  <1>9. s \in Blocks /\ s.prev = tip.id /\ s.prev <= tip.id
    BY <1>1, <1>3, <1>4, <1>5
  <1>10. TemplateOK(gbt)' /\ TemplateOK(work)'
    BY <1>7, <1>8, <1>9 DEF TemplateOK
  <1>11. EmergencyDifficultyEligible(tip, s.nTime) /\ s.nTime > tip.mtp + 1 => s.nBits = "limit"
    BY <1>2, <1>3, <1>4, <1>5
  <1>12. WorkEmergency'
    BY <1>7, <1>11 DEF WorkEmergency
  <1> QED
    BY <1>10, <1>12

LEMMA getblocktemplateInv == ASSUME IInv, getblocktemplate PROVE IInv'
  <1>1. UNCHANGED <<tip, now, haveKey, minerVars, stepsBack>>
    BY DEF getblocktemplate
  <1>2. TipOK' /\ TipMoves
    BY <1>1 DEF IInv, TipOK, TipMoves
  <1>3. PindexOK' /\ SearchOK'
    BY <1>1, <1>2, MinerKept
  <1>4. RestOK'
    BY <1>1 DEF IInv, RestOK, minerVars
  <1>5. TemplateOK(gbt)' /\ TemplateOK(work)' /\ WorkEmergency'
    <2>1. PICK fUpdated \in BOOLEAN, nFees \in Fees :
              IF ~Rebuild(fUpdated) THEN Serve(gbt)
              ELSE IF ConnectBlock(NewBlock(nFees), tip, TRUE) THEN Serve(NewBlock(nFees))
              ELSE gbt' = None /\ UNCHANGED work
      BY DEF getblocktemplate
    <2>2. CASE ~Rebuild(fUpdated) /\ Serve(gbt)
      <3>1. gbt # None /\ gbt.prev = tip.id /\ (EmergencyDifficultyEligible(tip, now) => gbt.nBits = "limit")
        BY <2>2 DEF Rebuild
      <3>2. gbt \in Blocks /\ MadeFor(gbt, tip)
        BY <3>1 DEF IInv, TemplateOK
      <3> QED
        BY <1>1, <2>2, <3>1, <3>2, ServeOK DEF MadeFor
    <2>3. CASE Serve(NewBlock(nFees))
      <3>1. tip \in Tips /\ now \in Int /\ tip.mtp \in Int
        BY DEF IInv, TipOK, Tips
      <3>2. LET h == tip.nHeight + 1 IN
            /\ NewBlock(nFees) \in Blocks
            /\ NewBlock(nFees).prev = tip.id
            /\ NewBlock(nFees).txs = Payment(h, nFees)
            /\ NewBlock(nFees).sig = {}
            /\ NewBlock(nFees).sigOut = (IsAfterRestorationFork(h) /\ IsInSignedWindow(h))
            /\ NewBlock(nFees).nTime = UpdateTime(tip) /\ NewBlock(nFees).built = UpdateTime(tip)
            /\ NewBlock(nFees).nBits = GetNextWorkRequiredForMining(tip, UpdateTime(tip))
        BY <3>1, NewBlockIs
      <3>3. now > tip.mtp + 1 => UpdateTime(tip) = now
        BY <3>1 DEF UpdateTime, Later
      <3>4. /\ EmergencyDifficultyEligible(tip, now) /\ now > tip.mtp + 1 => NewBlock(nFees).nBits = "limit"
            /\ \/ NewBlock(nFees).nBits = tip.next
               \/ NewBlock(nFees).nBits = "limit" /\ EmergencyDifficultyEligible(tip, NewBlock(nFees).built)
        BY <3>2, <3>3 DEF GetNextWorkRequiredForMining
      <3> QED
        BY <1>1, <2>3, <3>2, <3>4, ServeOK
    <2>4. CASE gbt' = None /\ UNCHANGED work
      <3>1. TemplateOK(gbt)'
        BY <2>4 DEF TemplateOK
      <3>2. TemplateOK(work)' /\ WorkEmergency'
        BY <1>1, <2>4 DEF IInv, TemplateOK, WorkEmergency
      <3> QED
        BY <3>1, <3>2
    <2> QED
      BY <2>1, <2>2, <2>3, <2>4
  <1> QED
    BY <1>2, <1>3, <1>4, <1>5 DEF IInv

-----------------------------------------------------------------------------
(* The thread.                                                              *)

LEMMA ReadTipInv == ASSUME IInv, ReadTip PROVE IInv'
  <1>1. /\ pc = "top" /\ pc' = "create" /\ pindexPrev' = tip
        /\ UNCHANGED <<tip, now, haveKey, gbtVars, pblock, stepsBack>>
    BY DEF ReadTip
  <1>2. TipOK' /\ TipMoves
    BY <1>1 DEF IInv, TipOK, TipMoves
  <1>3. TemplateOK(gbt)' /\ TemplateOK(work)' /\ WorkEmergency'
    BY <1>1, <1>2, TemplatesKept
  <1>4. PindexOK'
    BY <1>1 DEF PindexOK, IInv, TipOK, Tips
  <1>5. SearchOK'
    BY <1>1 DEF SearchOK, IInv
  <1>6. RestOK'
    BY <1>1 DEF RestOK, IInv, TipOK
  <1> QED
    BY <1>2, <1>3, <1>4, <1>5, <1>6 DEF IInv

LEMMA MinerCreateInv == ASSUME IInv, MinerCreate PROVE IInv'
  <1>1. pc = "create" /\ UNCHANGED <<tip, now, haveKey, gbtVars, stepsBack>>
    BY DEF MinerCreate
  <1>2. TipOK' /\ TipMoves
    BY <1>1 DEF IInv, TipOK, TipMoves
  <1>3. TemplateOK(gbt)' /\ TemplateOK(work)' /\ WorkEmergency'
    BY <1>1, <1>2, TemplatesKept
  <1>4. pindexPrev \in Tips /\ pindexPrev.id <= tip.id /\ pblock = None
    BY <1>1 DEF IInv, PindexOK, SearchOK
  <1>5. PindexOK' /\ SearchOK' /\ RestOK'
    <2> DEFINE h == pindexPrev.nHeight + 1
    <2>1. PICK nFees \in Fees :
            LET b == WithHeight(NewBlock(nFees), h)
            IN  IF ~ConnectBlock(NewBlock(nFees), tip, TRUE) THEN pc' = "dead" /\ UNCHANGED <<pblock, pindexPrev>>
                ELSE IF ~CanSign(b, h) THEN EndSearch
                ELSE pc' = "search" /\ pblock' = Signed(b, h) /\ UNCHANGED pindexPrev
      BY DEF MinerCreate
    <2> DEFINE n == NewBlock(nFees)
               b == WithHeight(n, h)
               s == Signed(b, h)
    <2>2. CASE pc' = "dead" /\ UNCHANGED <<pblock, pindexPrev>>
      BY <1>1, <1>4, <2>2 DEF PindexOK, SearchOK, RestOK, IInv
    <2>3. CASE EndSearch
      BY <1>1, <2>3, MinerStops DEF RestOK, IInv, EndSearch
    <2>4. CASE CanSign(b, h) /\ pc' = "search" /\ pblock' = s /\ UNCHANGED pindexPrev
      <3>1. tip \in Tips /\ now \in Int /\ tip.mtp \in Int /\ tip.id \in Int /\ h \in Nat
        BY <1>4 DEF IInv, TipOK, Tips
      <3> DEFINE k == tip.nHeight + 1
      <3>2. /\ n \in Blocks /\ n.prev = tip.id /\ n.txs = Payment(k, nFees) /\ n.sig = {}
            /\ n.sigOut = (IsAfterRestorationFork(k) /\ IsInSignedWindow(k))
            /\ n.nTime = UpdateTime(tip) /\ n.built = UpdateTime(tip)
            /\ n.nBits = GetNextWorkRequiredForMining(tip, UpdateTime(tip))
        BY <3>1, NewBlockIs
      <3> HIDE DEF n, h
      <3>3. /\ b \in Blocks /\ b.prev = n.prev /\ b.nTime = n.nTime /\ b.nBits = n.nBits /\ b.txs = n.txs
            /\ b.cbHeight = h /\ b.sigOut = n.sigOut /\ b.built = n.built /\ b.sig = n.sig
        BY <3>1, <3>2, WithHeightIs
      <3>4. CanSign(b, h) /\ pblock' = s
        BY <2>4
      <3> HIDE DEF b
      <3>5. /\ s \in Blocks /\ s.prev = b.prev /\ s.nTime = b.nTime /\ s.nBits = b.nBits /\ s.txs = b.txs
            /\ s.cbHeight = b.cbHeight /\ s.sigOut = b.sigOut /\ s.built = b.built
            /\ s.sig = b.sig \/ s.sig = {SigningMessage(b, h)}
            /\ IsInSignedWindow(h) /\ haveKey /\ b.sigOut => s.sig = {SigningMessage(b, h)}
        BY <3>1, <3>3, SignedIs
      <3>6. SigningMessage(s, h) = SigningMessage(b, h)
        BY <3>5 DEF SigningMessage
      <3> HIDE DEF s
      <3>7. ASSUME pindexPrev = tip
            PROVE  MadeFor(s, tip) /\ (s.sigOut => s.sig # {})
        <4>1. h = k
          BY <3>7 DEF h
        <4>2. UpdateTime(tip) > tip.mtp
          BY <3>1 DEF UpdateTime, Later
        <4>3. s.nBits = tip.next \/ (s.nBits = "limit" /\ EmergencyDifficultyEligible(tip, s.built))
          BY <3>2, <3>3, <3>5 DEF GetNextWorkRequiredForMining
        <4>4. s.sig = {} \/ s.sig = {SigningMessage(s, h)}
          BY <3>2, <3>3, <3>5, <3>6
        <4>5. s.sigOut => s.sig # {}
          BY <3>2, <3>3, <3>4, <3>5, <4>1 DEF CanSign
        <4>6. s.txs \in {Payment(k, f) : f \in Fees} /\ s.cbHeight = k /\ s.nTime > tip.mtp
          BY <3>2, <3>3, <3>5, <4>1, <4>2
        <4>7. s.sigOut = (IsAfterRestorationFork(k) /\ IsInSignedWindow(k))
          BY <3>2, <3>3, <3>5
        <4> QED
          BY <4>1, <4>3, <4>4, <4>5, <4>6, <4>7 DEF MadeFor
      <3>8. s.prev = tip.id /\ s.prev <= tip.id
        BY <3>1, <3>2, <3>3, <3>5
      <3>9. s # None
        BY <3>5, NoneAssumption
      <3>10. PindexOK'
        BY <1>1, <1>4, <2>4 DEF PindexOK
      <3>11. SearchOK'
        BY <1>1, <2>4, <3>4, <3>5, <3>7, <3>8 DEF SearchOK
      <3>12. RestOK'
        BY <1>1, <1>4, <2>4, <3>4, <3>9 DEF RestOK, IInv
      <3> QED
        BY <3>10, <3>11, <3>12
    <2> QED
      BY <2>1, <2>2, <2>3, <2>4
  <1> QED
    BY <1>2, <1>3, <1>5 DEF IInv

LEMMA EndSearchInv ==
    ASSUME IInv, EndSearch, UNCHANGED <<tip, now, haveKey, gbtVars, stepsBack>>
    PROVE  IInv'
  <1>1. TipOK' /\ TipMoves
    BY DEF IInv, TipOK, TipMoves
  <1>2. TemplateOK(gbt)' /\ TemplateOK(work)' /\ WorkEmergency'
    BY <1>1, TemplatesKept
  <1>3. PindexOK' /\ SearchOK'
    BY MinerStops
  <1>4. RestOK'
    BY DEF RestOK, IInv, EndSearch
  <1> QED
    BY <1>1, <1>2, <1>3, <1>4 DEF IInv

LEMMA MinerLookInv == ASSUME IInv, NEW lockMain \in BOOLEAN, MinerLook(lockMain) PROVE IInv'
  <1>1. pc = "search" /\ UNCHANGED <<tip, now, haveKey, gbtVars, stepsBack>>
    BY DEF MinerLook
  <1>2. CASE EndSearch
    BY <1>1, <1>2, EndSearchInv
  <1>3. CASE pblock' = [pblock EXCEPT !.nTime = UpdateTime(pindexPrev)] /\ UNCHANGED <<pc, pindexPrev>>
    <2> DEFINE t == UpdateTime(pindexPrev)
               c == [pblock EXCEPT !.nTime = t]
    <2>1. TipOK' /\ TipMoves
      BY <1>1 DEF IInv, TipOK, TipMoves
    <2>2. TemplateOK(gbt)' /\ TemplateOK(work)' /\ WorkEmergency'
      BY <1>1, <2>1, TemplatesKept
    <2>3. /\ pindexPrev \in Tips /\ pindexPrev.id <= tip.id
          /\ pblock # None /\ pblock \in Blocks /\ pblock.prev <= tip.id
          /\ pindexPrev = tip /\ pblock.prev = pindexPrev.id =>
                MadeFor(pblock, tip) /\ (pblock.sigOut => pblock.sig # {})
      BY <1>1 DEF IInv, PindexOK, SearchOK, RestOK
    <2>4. t \in Int /\ t > pindexPrev.mtp
      BY <2>3 DEF UpdateTime, Later, Tips, IInv, TipOK
    <2> HIDE DEF t
    <2>5. /\ c \in Blocks /\ c.prev = pblock.prev /\ c.nTime = t /\ c.nBits = pblock.nBits /\ c.txs = pblock.txs
          /\ c.cbHeight = pblock.cbHeight /\ c.sigOut = pblock.sigOut /\ c.built = pblock.built /\ c.sig = pblock.sig
      BY <2>3, <2>4, WithTimeIs
    <2>6. pblock' = c
      BY <1>3 DEF t
    <2> HIDE DEF c
    <2>7. ASSUME pindexPrev = tip, c.prev = pindexPrev.id
          PROVE  MadeFor(c, tip) /\ (c.sigOut => c.sig # {})
      <3>1. MadeFor(pblock, tip) /\ (pblock.sigOut => pblock.sig # {})
        BY <2>3, <2>5, <2>7
      <3>2. SigningMessage(c, tip.nHeight + 1) = SigningMessage(pblock, tip.nHeight + 1)
        BY <2>5 DEF SigningMessage
      <3>3. c.nTime > tip.mtp
        BY <2>4, <2>5, <2>7
      <3> QED
        BY <2>5, <3>1, <3>2, <3>3 DEF MadeFor
    <2>8. PindexOK'
      BY <1>1, <1>3 DEF PindexOK, IInv
    <2>9. SearchOK'
      BY <1>1, <1>3, <2>3, <2>5, <2>6, <2>7 DEF SearchOK
    <2>10. c # None
      BY <2>5, NoneAssumption
    <2>11. RestOK'
      BY <1>1, <1>3, <2>6, <2>10 DEF RestOK, IInv
    <2> QED
      BY <2>1, <2>2, <2>8, <2>9, <2>11 DEF IInv
  <1> QED
    BY <1>2, <1>3 DEF MinerLook

-----------------------------------------------------------------------------
(* The clock and the wallet.                                                *)

LEMMA OthersInv == ASSUME IInv, Tick \/ SetBack \/ LockWallet PROVE IInv'
  <1>1. UNCHANGED <<tip, gbtVars, minerVars>>
    BY DEF Tick, SetBack, LockWallet
  <1>2. now' \in 0 .. MaxTime /\ stepsBack' \in 0 .. MaxStepsBack /\ haveKey' \in BOOLEAN
    <2>1. now \in 0 .. MaxTime /\ stepsBack \in 0 .. MaxStepsBack /\ haveKey \in BOOLEAN
          /\ MaxTime \in Nat /\ MaxStepsBack \in Nat
      BY MiningAssumption DEF IInv, TipOK, RestOK
    <2>2. CASE Tick
      BY <2>1, <2>2 DEF Tick
    <2>3. CASE SetBack
      BY <2>1, <2>3 DEF SetBack
    <2>4. CASE LockWallet
      BY <2>1, <2>4 DEF LockWallet
    <2> QED
      BY <2>2, <2>3, <2>4
  <1>3. TipOK' /\ TipMoves
    BY <1>1, <1>2 DEF IInv, TipOK, TipMoves
  <1>4. TemplateOK(gbt)' /\ TemplateOK(work)' /\ WorkEmergency' /\ PindexOK' /\ SearchOK'
    BY <1>1, <1>3, TemplatesKept, MinerKept
  <1>5. RestOK'
    BY <1>1, <1>2 DEF IInv, RestOK, minerVars
  <1> QED
    BY <1>3, <1>4, <1>5 DEF IInv

LEMMA StutterInv == ASSUME IInv, UNCHANGED vars PROVE IInv'
  <1>1. UNCHANGED <<tip, now, haveKey, gbtVars, minerVars, stepsBack>>
    BY DEF vars
  <1>2. TipOK' /\ TipMoves
    BY <1>1 DEF IInv, TipOK, TipMoves
  <1>3. TemplateOK(gbt)' /\ TemplateOK(work)' /\ WorkEmergency' /\ PindexOK' /\ SearchOK'
    BY <1>1, <1>2, TemplatesKept, MinerKept
  <1>4. RestOK'
    BY <1>1 DEF IInv, RestOK, minerVars
  <1> QED
    BY <1>2, <1>3, <1>4 DEF IInv

LEMMA NextInv == IInv /\ [Next]_vars => IInv'
  <1> SUFFICES ASSUME IInv, [Next]_vars PROVE IInv'
    OBVIOUS
  <1>1. CASE ReceiveBlock
    BY <1>1, ReceiveBlockInv
  <1>2. CASE getblocktemplate
    BY <1>2, getblocktemplateInv
  <1>3. CASE submitblock
    BY <1>3, submitblockInv
  <1>4. CASE ReadTip
    BY <1>4, ReadTipInv
  <1>5. CASE MinerCreate
    BY <1>5, MinerCreateInv
  <1>6. CASE MinerGiveUp
    BY <1>6, EndSearchInv DEF MinerGiveUp
  <1>7. CASE CheckWork
    BY <1>7, CheckWorkInv
  <1>8. CASE \E lockMain \in BOOLEAN : MinerLook(lockMain)
    BY <1>8, MinerLookInv
  <1>9. CASE Tick \/ SetBack \/ LockWallet
    BY <1>9, OthersInv
  <1>10. CASE UNCHANGED vars
    BY <1>10, StutterInv
  <1> QED
    BY <1>1, <1>2, <1>3, <1>4, <1>5, <1>6, <1>7, <1>8, <1>9, <1>10 DEF Next

-----------------------------------------------------------------------------
(* The theorems.                                                            *)

(* IInv: what is kept, served and hashed is, as long as the tip stays, a    *)
(* block made for it, with only its time, height and signature changed.     *)
THEOREM MiningInvariant == Spec => []IInv
  <1>1. Init => IInv
    BY InitInv
  <1>2. IInv /\ [Next]_vars => IInv'
    BY NextInv
  <1> QED
    BY <1>1, <1>2, PTL DEF Spec

(* Every variable of Mining keeps its type: no payment is negative.         *)
THEOREM MiningTypes == Spec => []TypeOK
  <1>1. IInv => TypeOK
    BY InvType
  <1> QED
    BY <1>1, MiningInvariant, PTL

(* What getblocktemplate served stays acceptable while the tip stays, at    *)
(* every height, whenever it was built, signed and refreshed.               *)
THEOREM AlwaysServedAcceptable == Spec => []ServedAcceptable
  <1>1. IInv => ServedAcceptable
    BY InvServed
  <1> QED
    BY <1>1, MiningInvariant, PTL

(* So does what the thread hashes, when its two reads of the tip agree.     *)
THEOREM AlwaysSearchAcceptable == Spec => []SearchAcceptable
  <1>1. IInv => SearchAcceptable
    BY InvSearch
  <1> QED
    BY <1>1, MiningInvariant, PTL

(* CreateNewBlock's own check fails only by the clock.                      *)
THEOREM AlwaysOwnBlockSound == Spec => []OwnBlockSound
  <1>1. IInv => OwnBlockSound
    BY InvOwn
  <1> QED
    BY <1>1, MiningInvariant, PTL

(* The page and the pay agree with the consensus rule for the next block of *)
(* every tip.                                                               *)
THEOREM AlwaysRitualExact == Spec => []RitualExact
  <1>1. IInv => RitualExact
    BY InvRitual
  <1> QED
    BY <1>1, MiningInvariant, PTL

=============================================================================
