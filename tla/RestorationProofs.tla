------------------------- MODULE RestorationProofs -------------------------
(* What the functions of Restoration do at every height.                    *)
EXTENDS Restoration, TLAPS

(* The bounty of every day is a natural number. *)
LEMMA DayBountyNat == \A day \in Int : DayBounty(day) \in Nat
  <1> SUFFICES ASSUME NEW day \in Int PROVE DayBounty(day) \in Nat
    OBVIOUS
  <1> DEFINE n == CASE day = 0 -> 10000
                    [] day \in 1 .. 5 -> 1000
                    [] day \in 6 .. 12 -> 100
                    [] day \in 13 .. 19 -> 10
                    [] day \in 20 .. 26 -> 1
                    [] OTHER -> 0
  <1>1. n \in Nat
    OBVIOUS
  <1>2. DayBounty(day) = COIN * n
    BY DEF DayBounty
  <1> HIDE DEF n
  <1>3. COIN * n \in Nat
    BY <1>1, RestorationAssumption
  <1> QED
    BY <1>2, <1>3

LEMMA FinaleTypes ==
    \A h \in Nat : NearestFinale(h) \in Int /\ NextFinale(h) \in Int /\ NextFinale(h) >= h
  BY DEF NearestFinale, NextFinale, FIRST_FINALE, PERIOD

LEMMA RitualBonusNat == \A h \in Nat : RitualBonus(h) \in Nat
  <1> SUFFICES ASSUME NEW h \in Nat PROVE RitualBonus(h) \in Nat
    OBVIOUS
  <1>1. DayBounty((NearestFinale(h) - h) \div DAY) \in Nat
    <2>1. (NearestFinale(h) - h) \div DAY \in Int
      BY FinaleTypes DEF DAY
    <2> QED
      BY <2>1, DayBountyNat
  <1> QED
    BY <1>1 DEF RitualBonus

LEMMA DivPeriod ==
    ASSUME NEW n \in Int
    PROVE  /\ n \div PERIOD \in Int
           /\ 263000 * (n \div PERIOD) <= n
           /\ n < 263000 * (n \div PERIOD) + 263000
  BY DEF PERIOD

LEMMA DivDay ==
    ASSUME NEW n \in Nat
    PROVE  /\ n \div DAY \in Nat
           /\ 1440 * (n \div DAY) <= n /\ n < 1440 * (n \div DAY) + 1440
           /\ n % DAY = 0 <=> n = 1440 * (n \div DAY)
  <1>1. n \div 1440 \in Nat /\ 1440 * (n \div 1440) <= n /\ n < 1440 * (n \div 1440) + 1440
    BY SMT
  <1>2. n % 1440 = n - 1440 * (n \div 1440)
    BY SMT
  <1>3. QED
    BY <1>1, <1>2, SMT DEF DAY

(* The finale the two definitions go by, without the division.              *)
LEMMA NextFinaleBounds ==
    ASSUME NEW h \in Nat
    PROVE  \E k \in Nat : /\ NextFinale(h) = 1141666 + 263000 * k
                          /\ h <= NextFinale(h)
                          /\ k > 0 => NextFinale(h) - 263000 < h
  <1> DEFINE q == (h - 1141666 + 262999) \div PERIOD
  <1>1. q \in Int /\ 263000 * q <= h - 1141666 + 262999
        /\ h - 1141666 + 262999 < 263000 * q + 263000
    BY DivPeriod
  <1>2. CASE h <= 1141666
    <2>1. NextFinale(h) = 1141666 + 263000 * 0
      BY <1>2 DEF NextFinale, FIRST_FINALE, PERIOD
    <2> QED
      BY <2>1, <1>2
  <1>3. CASE h > 1141666
    <2>1. NextFinale(h) = 1141666 + q * 263000
      BY <1>3 DEF NextFinale, FIRST_FINALE, PERIOD
    <2> HIDE DEF q
    <2>2. q \in Nat
      BY <1>1, <1>3
    <2> QED
      BY <1>1, <2>1, <2>2
  <1> QED
    BY <1>2, <1>3

LEMMA NearestFinaleBounds ==
    ASSUME NEW h \in Nat
    PROVE  \E k \in Nat : /\ NearestFinale(h) = 1141666 + 263000 * k
                          /\ h < NearestFinale(h) + 131500
                          /\ k > 0 => NearestFinale(h) - 131500 <= h
  <1> DEFINE q == (h - 1141666 + 131500) \div PERIOD
  <1>1. q \in Int /\ 263000 * q <= h - 1141666 + 131500
        /\ h - 1141666 + 131500 < 263000 * q + 263000
    BY DivPeriod
  <1>2. NearestFinale(h) = 1141666 + (IF q < 0 THEN 0 ELSE q) * 263000
    <2>1. PERIOD \div 2 = 131500
      BY DEF PERIOD
    <2> QED
      BY <2>1 DEF NearestFinale, FIRST_FINALE, PERIOD
  <1> HIDE DEF q
  <1>3. PICK k \in Nat : k = IF q < 0 THEN 0 ELSE q
    BY <1>1
  <1> QED
    BY <1>1, <1>2, <1>3

(* In the 28 days before a finale, and only there, the nearest finale is the *)
(* next one, at most 28 days away.                                          *)
LEMMA NearestIsNext ==
    ASSUME NEW h \in Nat
    PROVE  /\ NextFinale(h) - h <= 28 * DAY =>
                 h >= FIRST_FINALE - 28 * DAY /\ NearestFinale(h) = NextFinale(h)
           /\ h >= FIRST_FINALE - 28 * DAY /\ NearestFinale(h) - h \in 0 .. 28 * DAY =>
                 NearestFinale(h) = NextFinale(h)
  <1>1. PICK k \in Nat : /\ NextFinale(h) = 1141666 + 263000 * k
                         /\ h <= NextFinale(h)
                         /\ k > 0 => NextFinale(h) - 263000 < h
    BY NextFinaleBounds
  <1>2. PICK m \in Nat : /\ NearestFinale(h) = 1141666 + 263000 * m
                         /\ h < NearestFinale(h) + 131500
                         /\ m > 0 => NearestFinale(h) - 131500 <= h
    BY NearestFinaleBounds
  <1>3. 28 * DAY = 40320 /\ FIRST_FINALE - 28 * DAY = 1101346
    BY SMT DEF FIRST_FINALE, DAY
  <1>4. PICK F \in Int : F = NextFinale(h)
    BY <1>1, SMT
  <1>5. PICK G \in Int : G = NearestFinale(h)
    BY <1>2, SMT
  <1>6. F = 1141666 + 263000 * k /\ h <= F /\ (k > 0 => F - 263000 < h)
    BY <1>1, <1>4, SMT
  <1>7. G = 1141666 + 263000 * m /\ h < G + 131500 /\ (m > 0 => G - 131500 <= h)
    BY <1>2, <1>5, SMT
  <1>8. k = m => F = G
    BY <1>6, <1>7, SMT
  <1>9. F - h <= 40320 => h >= 1101346 /\ k = m
    BY <1>6, <1>7, SMT
  <1>10. h >= 1101346 /\ G - h >= 0 /\ G - h <= 40320 => k = m
    BY <1>6, <1>7, SMT
  <1>11. QED
    BY <1>3, <1>4, <1>5, <1>8, <1>9, <1>10, SMT

(* The bonus in terms of the finale the overview page counts down to.       *)
LEMMA BonusByNext ==
    ASSUME NEW h \in Nat
    PROVE  /\ RitualBonus(h) # 0 =>
                 NextFinale(h) - h <= 28 * DAY /\ (NextFinale(h) - h) % DAY = 0
  BY NearestIsNext, FinaleTypes DEF RitualBonus

(* Until the next special block of the rite the finale stays the next one.  *)
LEMMA SameFinale ==
    ASSUME NEW h \in Nat, NEW x \in Nat, h <= x, x <= NextFinale(h)
    PROVE  NextFinale(x) = NextFinale(h)
  <1>1. PICK k \in Nat : /\ NextFinale(h) = 1141666 + 263000 * k
                         /\ k > 0 => NextFinale(h) - 263000 < h
    BY NextFinaleBounds
  <1>2. PICK m \in Nat : /\ NextFinale(x) = 1141666 + 263000 * m
                         /\ x <= NextFinale(x)
                         /\ m > 0 => NextFinale(x) - 263000 < x
    BY NextFinaleBounds
  <1> QED
    BY <1>1, <1>2

(* GetBlockValue, GetMinerSubsidy and GetTreasurySubsidy with GetTitheAmount *)
(* agree at every height and for all fees: CreateNewBlock's coinbase is the *)
(* most ConnectBlock lets a block pay, and exactly that.                    *)
THEOREM SplitExact == \A h \in Nat, nFees \in Nat : SplitExactAt(h, nFees)
  <1> SUFFICES ASSUME NEW h \in Nat, NEW nFees \in Nat, IsAfterRestorationFork(h)
               PROVE  GetMinerSubsidy(h, nFees) + GetTreasurySubsidy(h) + GetTitheAmount(h)
                          = GetBlockValue(h, nFees)
    BY DEF SplitExactAt
  <1>1. RitualBonus(h) \in Int /\ GetTitheAmount(h) \in Int /\ PostForkSubsidy \in Int
    BY RitualBonusNat, RestorationAssumption DEF GetTitheAmount
  <1>2. GetTreasurySubsidy(h) \in Int
    <2>1. PostForkSubsidy * TreasuryNum \in Int
      BY RestorationAssumption
    <2> QED
      BY <2>1, RestorationAssumption DEF GetTreasurySubsidy
  <1> QED
    BY <1>1, <1>2 DEF GetMinerSubsidy, GetBlockValue

(* GetRitualStatus and RitualBonus keep step at every height: the display   *)
(* never misses a bounty, never promises another one, and never counts down *)
(* past one.                                                                *)
THEOREM RitualInStep == \A h \in Nat : RitualInStepAt(h)
  <1> SUFFICES ASSUME NEW h \in Nat PROVE RitualInStepAt(h)
    OBVIOUS
  <1> DEFINE d == NextFinale(h) - h
             r == d \div DAY
             next == h + d - r * DAY
  <1>0. d \in Nat
    BY FinaleTypes
  <1>1. r \in Nat /\ r * DAY <= d /\ d < r * DAY + DAY
    BY <1>0, DivDay DEF DAY
  <1>2. (d % DAY = 0) <=> r * DAY = d
    BY <1>0, DivDay DEF DAY
  <1>3. next \in Nat /\ next >= h /\ next = NextFinale(h) - r * DAY
    BY <1>0, <1>1, FinaleTypes DEF DAY
  <1>4. ASSUME d <= 28 * DAY
        PROVE  /\ GetRitualStatus(h).fInRite
               /\ GetRitualStatus(h).nBlocksToFinale = d
               /\ GetRitualStatus(h).nRiteDay = r
               /\ GetRitualStatus(h).nUpcomingBounty = RitualBonus(next)
    BY <1>4, <1>3 DEF GetRitualStatus
  <1>5. GetRitualStatus(h).fInRite <=> d <= 28 * DAY
    BY DEF GetRitualStatus
  <1>6. ASSUME RitualBonus(h) # 0
        PROVE  /\ GetRitualStatus(h).fInRite
               /\ GetRitualStatus(h).nBlocksToFinale % DAY = 0
               /\ GetRitualStatus(h).nUpcomingBounty = RitualBonus(h)
    <2>1. d <= 28 * DAY /\ d % DAY = 0
      BY <1>6, BonusByNext
    <2>2. next = h
      BY <2>1, <1>1, <1>2 DEF DAY
    <2> QED
      BY <2>1, <2>2, <1>4
  <1>7. ASSUME d <= 28 * DAY, NEW x \in h .. next - 1
        PROVE  RitualBonus(x) = 0
    <2>1. x \in Nat /\ h <= x /\ x <= NextFinale(h)
      <3> HIDE DEF d, r, next
      <3>1. NextFinale(h) \in Int /\ next <= NextFinale(h)
        BY <1>1, <1>3, FinaleTypes DEF DAY
      <3> QED
        BY <1>3, <1>7, <3>1
    <2>2. NextFinale(x) = NextFinale(h)
      BY <2>1, SameFinale
    <2>3. NextFinale(h) - x > r * DAY /\ NextFinale(h) - x < r * DAY + DAY
      BY <1>0, <1>1, <1>3, <1>7, <2>1, FinaleTypes DEF DAY
    <2>4. (NextFinale(h) - x) % DAY # 0
      <3>1. PICK e \in Nat : e = NextFinale(h) - x
        BY <2>1, FinaleTypes
      <3>2. PICK n \in Nat : n = r
        BY <1>1
      <3>3. e > 1440 * n /\ e < 1440 * n + 1440
        BY <3>1, <3>2, <2>3, SMT DEF DAY
      <3>4. PICK q \in Nat : q = e \div DAY
        BY DivDay
      <3>5. e % DAY = 0 => e = 1440 * q
        BY <3>4, DivDay
      <3>6. e # 1440 * q
        BY <3>3, SMT
      <3> QED
        BY <3>1, <3>5, <3>6
    <2> QED
      BY <2>1, <2>2, <2>4, BonusByNext
  <1> HIDE DEF d, r, next
  <1>8. CASE d <= 28 * DAY
    <2>1. next = h + GetRitualStatus(h).nBlocksToFinale - GetRitualStatus(h).nRiteDay * DAY
      BY <1>4, <1>8 DEF next
    <2> QED
      BY <1>3, <1>6, <1>7, <1>8, <2>1 DEF RitualInStepAt
  <1>9. CASE ~(d <= 28 * DAY)
    BY <1>5, <1>6, <1>9 DEF RitualInStepAt
  <1> QED
    BY <1>8, <1>9

=============================================================================
