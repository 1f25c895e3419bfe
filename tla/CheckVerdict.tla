---------------------------- MODULE CheckVerdict ----------------------------
(***************************************************************************)
(* What ConnectBlock relies on when it hands the script checks of a block  *)
(* to a CCheckQueueControl (src/main.cpp, ConnectBlock): the verdict is    *)
(* the conjunction of the checks added for this block, and of no others.   *)
(***************************************************************************)
CONSTANTS
    Checks,  \* the script checks a block can have
    Good     \* those that succeed

VARIABLES
    open,    \* a control exists: a block is being checked
    added,   \* the checks added for it so far
    verdict  \* what the last Wait returned

Init == open = FALSE /\ added = {} /\ verdict = TRUE

Begin == /\ ~open
         /\ open' = TRUE /\ added' = {}
         /\ UNCHANGED verdict

Add(batch) == /\ open
              /\ batch \cap added = {}
              /\ added' = added \cup batch
              /\ UNCHANGED <<open, verdict>>

Decide == /\ open
          /\ open' = FALSE
          /\ verdict' = (added \subseteq Good)
          /\ UNCHANGED added

Next == Begin \/ (\E batch \in SUBSET Checks : Add(batch)) \/ Decide

Spec == Init /\ [][Next]_<<open, added, verdict>>
=============================================================================
