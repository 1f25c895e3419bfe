---------------------------- MODULE Restoration ----------------------------
(* The rules of the restoration fork (src/main.cpp, src/chainparams.cpp):   *)
(* what a block pays and to whom, the renewed ritual and what the overview  *)
(* page says of it, and which heights need a signature of the Conclave.     *)
(* Functions of the height; 1 COIN is scaled down by the model.             *)
EXTENDS Integers

CONSTANTS
    COIN,
    RestorationForkHeight,
    SignedWindowStart,
    OpenMiningHeight,
    PostForkSubsidy,
    TreasuryNum, TreasuryDen,   \* the treasury's share of it
    RestorationTithe,
    PreForkSubsidy  \* the subsidy of the last heights before the fork

ASSUME RestorationAssumption ==
    /\ COIN \in Nat \ {0}
    /\ RestorationForkHeight \in Nat
    /\ SignedWindowStart \in Nat /\ OpenMiningHeight \in Nat
    /\ PostForkSubsidy \in Nat /\ RestorationTithe \in Nat
    /\ TreasuryNum \in Nat /\ TreasuryDen \in Nat \ {0} /\ TreasuryNum <= TreasuryDen
    /\ PreForkSubsidy \in Nat

FIRST_FINALE == 1141666
PERIOD == 263000
DAY == 1440

IsAfterRestorationFork(h) == h >= RestorationForkHeight
IsInSignedWindow(h) == SignedWindowStart <= h /\ h <= OpenMiningHeight

(* The bounty of a day of the rite, 0 being the finale.                     *)
DayBounty(day) ==
    COIN * CASE day = 0 -> 10000
             [] day \in 1 .. 5 -> 1000
             [] day \in 6 .. 12 -> 100
             [] day \in 13 .. 19 -> 10
             [] day \in 20 .. 26 -> 1
             [] OTHER -> 0

(* The finale nearest to h. *)
NearestFinale(h) ==
    LET k == (h - FIRST_FINALE + PERIOD \div 2) \div PERIOD
    IN  FIRST_FINALE + (IF k < 0 THEN 0 ELSE k) * PERIOD

RitualBonus(h) ==
    LET d == NearestFinale(h) - h
    IN  IF IsAfterRestorationFork(h) /\ h >= FIRST_FINALE - 28 * DAY
           /\ d \in 0 .. 28 * DAY /\ d % DAY = 0
        THEN DayBounty(d \div DAY) ELSE 0

(* Mutant: the finale after h, not the one at it. *)
FinaleAfter(h) ==
    LET k == IF h < FIRST_FINALE THEN 0 ELSE (h - FIRST_FINALE + PERIOD) \div PERIOD
    IN  FIRST_FINALE + k * PERIOD

(* What the overview page is told at height h. *)
NextFinale(h) ==
    LET k == IF h <= FIRST_FINALE THEN 0 ELSE (h - FIRST_FINALE + PERIOD - 1) \div PERIOD
    IN  FIRST_FINALE + k * PERIOD

GetRitualStatus(h) ==
    LET F == NextFinale(h)
        fInRite == F - h <= 28 * DAY
        nRiteDay == IF fInRite THEN (F - h) \div DAY ELSE 0
    IN  [nBlocksToFinale |-> F - h,
         fInRite |-> fInRite,
         nRiteDay |-> nRiteDay,
         nUpcomingBounty |-> IF fInRite THEN RitualBonus(F - nRiteDay * DAY) ELSE 0]

-----------------------------------------------------------------------------
GetTitheAmount(h) == IF h = RestorationForkHeight THEN RestorationTithe ELSE 0

(* The most a block may pay. *)
GetBlockValue(h, nFees) ==
    (IF IsAfterRestorationFork(h) THEN PostForkSubsidy + RitualBonus(h) ELSE PreForkSubsidy)
    + GetTitheAmount(h) + nFees

GetTreasurySubsidy(h) ==
    IF IsAfterRestorationFork(h) THEN (PostForkSubsidy * TreasuryNum) \div TreasuryDen ELSE 0

(* Mutant: the treasury's share is not taken from the miner's. *)
WholeMinerSubsidy(h, nFees) ==
    IF ~IsAfterRestorationFork(h) THEN GetBlockValue(h, nFees)
    ELSE PostForkSubsidy + RitualBonus(h) + nFees

GetMinerSubsidy(h, nFees) ==
    IF ~IsAfterRestorationFork(h) THEN GetBlockValue(h, nFees)
    ELSE PostForkSubsidy - GetTreasurySubsidy(h) + RitualBonus(h) + nFees

-----------------------------------------------------------------------------
(* The page and the consensus rule agree: h pays a bounty only when the page *)
(* says at h that the rite is on, that this is one of its special blocks and *)
(* that this is its bounty; and no block pays one before the block that the  *)
(* page, during the rite, counts down to.                                    *)
RitualInStepAt(h) ==
    LET s == GetRitualStatus(h)
        next == h + s.nBlocksToFinale - s.nRiteDay * DAY
    IN  /\ RitualBonus(h) # 0 =>
              s.fInRite /\ s.nBlocksToFinale % DAY = 0 /\ s.nUpcomingBounty = RitualBonus(h)
        /\ s.fInRite => next >= h /\ \A x \in h .. next - 1 : RitualBonus(x) = 0

(* What the block at h pays is what it may pay: the miner's and the         *)
(* treasury's outputs, split by one piece of code, add up to the limit that *)
(* another computes, bounty, tithe and fees included.                       *)
SplitExactAt(h, nFees) ==
    IsAfterRestorationFork(h) =>
        GetMinerSubsidy(h, nFees) + GetTreasurySubsidy(h) + GetTitheAmount(h)
            = GetBlockValue(h, nFees)

=============================================================================
