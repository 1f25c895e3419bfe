------------------------------ MODULE MCMining ------------------------------
(* Instances of Mining for TLC, with the heights of chainparams.cpp; COIN   *)
(* is 16, the treasury's share of 1.5 COIN then being exactly 3.            *)
EXTENDS Mining, FiniteSetsExt

(* The figures of main.cpp:1267-1270. *)
ASSUME FirstCycle ==
    LET days == {FIRST_FINALE - d * DAY : d \in 0 .. 28}
        paying == {h \in days : RitualBonus(h) # 0}
    IN  /\ FoldSet(LAMBDA h, s : s + RitualBonus(h), 0, days) = 15777 * COIN
        /\ Cardinality(paying) = 27
        /\ 1104226 \in paying /\ \A h \in paying : h >= 1104226

=============================================================================
