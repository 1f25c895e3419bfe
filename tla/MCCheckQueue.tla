---------------------------- MODULE MCCheckQueue ----------------------------
(* CheckQueue for TLC: checks that succeed are interchangeable, and so are  *)
(* the workers.                                                             *)
EXTENDS CheckQueue, TLC

Symmetric == Permutations(Good) \cup Permutations(Workers)
=============================================================================
