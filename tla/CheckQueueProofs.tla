-------------------------- MODULE CheckQueueProofs --------------------------
(* Proofs about CheckQueue: the verdict the master gets is right for any     *)
(* number of workers and checks, and the queue is unused between two blocks. *)
EXTENDS CheckQueue, FiniteSetTheorems, TLAPS

(* The checks that nTodo counts: those in the queue and those in a batch.    *)
Pending == queue \cup UNION {vChecks[t] : t \in Threads}

BatchesApart ==
    \A t \in Threads :
        /\ vChecks[t] \cap queue = {}
        /\ \A u \in Threads : u # t => vChecks[t] \cap vChecks[u] = {}

BatchesHeld ==
    \A t \in Threads : /\ vChecks[t] # {} => pc[t] \in {"run", "lock"}
                       /\ pc[t] = "run" => vChecks[t] # {}

MutexHeld == \A t \in Threads : pc[t] = "loop" <=> mutex = t

(* Only the master has a block, only workers end. *)
Roles == /\ \A w \in Workers : pc[w] \notin {"idle", "adding", "aborted"}
         /\ pc[Master] # "done"

TodoCounted == nTodo = Cardinality(Pending) /\ Pending \subseteq added

(* The threads that nTotal counts and nIdle does not. *)
Awake == {t \in Threads : \/ pc[t] \in {"loop", "run"}
                          \/ pc[t] = "lock" /\ vChecks[t] # {}}
Asleep == {t \in Threads : pc[t] \in {"waiting", "woken"}}

Counted == nTotal = nIdle + Cardinality(Awake) /\ Cardinality(Asleep) <= nIdle

(* What fAllOk and fOk know of the current block.                            *)
VerdictSoFar ==
    pc[Master] \notin {"idle", "aborted"} =>
        /\ fAllOk => added \ Pending \subseteq Good
        /\ ~fAllOk => ~(added \subseteq Good)
        /\ \A t \in Threads : vChecks[t] # {} =>
              /\ ~fOk[t] => ~(added \subseteq Good)
              /\ pc[t] = "lock" /\ fOk[t] => vChecks[t] \subseteq Good

CleanWhenIdle == pc[Master] = "idle" => Pending = {} /\ fAllOk

(* TypeOK without the parts that follow from the counting. *)
IInv ==
    /\ TypeOK
    /\ BatchesApart /\ BatchesHeld /\ MutexHeld /\ Roles
    /\ TodoCounted /\ Counted /\ VerdictSoFar /\ CleanWhenIdle

-----------------------------------------------------------------------------
LEMMA ThreadsFinite == IsFiniteSet(Threads)
BY QueueAssumption, FS_AddElement DEF Threads

LEMMA ThreadSubset ==
    ASSUME NEW S, S \subseteq Threads
    PROVE  IsFiniteSet(S) /\ Cardinality(S) \in Nat
BY ThreadsFinite, FS_Subset, FS_CardinalityType

LEMMA PendingFinite ==
    ASSUME TypeOK
    PROVE  IsFiniteSet(Pending) /\ Cardinality(Pending) \in Nat
<1>1. Pending \subseteq Checks
  BY DEF Pending, TypeOK
<1>2. QED
  BY <1>1, QueueAssumption, FS_Subset, FS_CardinalityType

LEMMA IInvInit == Init => IInv
<1> SUFFICES ASSUME Init PROVE IInv
  OBVIOUS
<1>1. Pending = {}
  BY DEF Init, Pending
<1>2. Awake = {} /\ Asleep = {}
  BY DEF Init, Awake, Asleep
<1>3. TypeOK
  BY QueueAssumption DEF Init, TypeOK
<1>4. TodoCounted /\ Counted
  BY <1>1, <1>2, FS_EmptySet DEF Init, TodoCounted, Counted
<1>5. BatchesApart /\ BatchesHeld /\ MutexHeld /\ Roles
  BY QueueAssumption DEF Init, BatchesApart, BatchesHeld, MutexHeld, Roles, Threads
<1>6. VerdictSoFar /\ CleanWhenIdle
  BY <1>1 DEF Init, VerdictSoFar, CleanWhenIdle, Threads
<1>7. QED
  BY <1>3, <1>4, <1>5, <1>6 DEF IInv

(* A step that touches neither the queue nor a batch. *)
LEMMA PendingFrame ==
    UNCHANGED <<queue, vChecks>> => Pending' = Pending /\ (BatchesApart => BatchesApart')
BY DEF Pending, BatchesApart

-----------------------------------------------------------------------------
LEMMA ControlStep == IInv /\ Control => IInv'
<1> SUFFICES ASSUME IInv, Control PROVE IInv'
  OBVIOUS
<1> USE DEF IInv
<1>1. UNCHANGED <<queue, fAllOk, nTodo, nIdle, nTotal, mutex, vChecks, fOk>>
  BY DEF Control, queueVars, countVars, localVars
<1>2. Pending' = Pending /\ Pending = {} /\ BatchesApart'
  BY <1>1, PendingFrame DEF Control, CleanWhenIdle
<1>3. /\ pc[Master] = "idle" /\ pc' = [pc EXCEPT ![Master] = pc'[Master]]
      /\ pc'[Master] \in {"adding", "aborted"} /\ Master \in Threads
  BY DEF Control, TypeOK, Threads
<1>4. TypeOK'
  BY QueueAssumption DEF TypeOK, Control, queueVars, countVars, localVars
<1>5. BatchesHeld' /\ MutexHeld' /\ Roles'
  <2>1. \A t \in Threads : t # Master => pc'[t] = pc[t]
    BY <1>3 DEF TypeOK
  <2>2. mutex # Master
    BY <1>3 DEF MutexHeld
  <2>3. \A t \in Threads : vChecks[t] = {}
    BY <1>2 DEF Pending
  <2>4. BatchesHeld'
    BY <1>1, <1>3, <2>1, <2>3 DEF BatchesHeld
  <2>5. MutexHeld'
    BY <1>1, <1>3, <2>1, <2>2 DEF MutexHeld
  <2>6. Roles'
    BY <1>3, <2>1, QueueAssumption DEF Roles, Threads
  <2>7. QED
    BY <2>4, <2>5, <2>6
<1>6. Awake' = Awake /\ Asleep' = Asleep
  BY <1>1, <1>3 DEF Awake, Asleep, TypeOK
<1>7. \A t \in Threads : vChecks[t] = {}
  BY <1>2 DEF Pending
<1>8. VerdictSoFar' /\ CleanWhenIdle'
  <2>1. pc'[Master] = "adding" => added' = {}
    BY <1>3 DEF Control, TypeOK
  <2>2. fAllOk
    BY <1>3 DEF CleanWhenIdle
  <2>3. VerdictSoFar'
    BY <1>1, <1>3, <1>7, <2>1, <2>2 DEF VerdictSoFar
  <2>4. QED
    BY <1>3, <2>3 DEF CleanWhenIdle
<1>9. TodoCounted' /\ Counted'
  BY <1>1, <1>2, <1>6 DEF TodoCounted, Counted
<1>10. QED
  BY <1>2, <1>4, <1>5, <1>8, <1>9

(* Handing checks over. *)
LEMMA AddStep ==
    ASSUME IInv, NEW batch \in SUBSET Checks, Add(batch)
    PROVE  IInv'
<1> USE DEF IInv
<1>1. /\ queue' = queue \cup batch /\ added' = added \cup batch
      /\ nTodo' = nTodo + Cardinality(batch) /\ batch \cap added = {}
      /\ UNCHANGED <<fAllOk, nIdle, nTotal, mutex, vChecks, fOk, result, blocks,
                     spurious, interrupt>>
      /\ mutex = NoThread
  BY DEF Add, countVars, localVars
<1>2. PICK woken \in Notified(batch) :
         pc' = [t \in Threads |-> IF t \in woken THEN "woken" ELSE pc[t]]
  BY DEF Add
<1>3. woken \subseteq Waiting
  BY <1>2 DEF Notified
<1>4. \A t \in Threads : \/ pc'[t] = pc[t]
                         \/ pc[t] = "waiting" /\ pc'[t] = "woken" /\ t # Master
  BY <1>2, <1>3, QueueAssumption DEF Waiting
<1>5. pc[Master] = "adding" /\ Master \in Threads /\ pc'[Master] = "adding"
  BY <1>4 DEF Add, Threads
<1>6. Pending' = Pending \cup batch /\ Pending \cap batch = {}
  BY <1>1 DEF Pending, TodoCounted
<1>7. /\ IsFiniteSet(Pending) /\ IsFiniteSet(batch) /\ Cardinality(batch) \in Nat
      /\ Cardinality(Pending \cap batch) = 0 /\ Cardinality(Pending) \in Nat
  BY <1>6, PendingFinite, QueueAssumption, FS_Subset, FS_CardinalityType, FS_EmptySet
<1>8. TodoCounted'
  <2>1. Cardinality(Pending \cup batch) = Cardinality(Pending) + Cardinality(batch)
    <3>1. Cardinality(Pending \cup batch) =
             Cardinality(Pending) + Cardinality(batch) - Cardinality(Pending \cap batch)
      BY <1>7, FS_Union
    <3>2. QED
      BY <1>7, <3>1
  <2>2. QED
    BY <1>1, <1>6, <2>1 DEF TodoCounted
<1>9. TypeOK'
  BY <1>1, <1>2, <1>7 DEF TypeOK
<1>10. BatchesApart'
  <2>1. \A t \in Threads : vChecks[t] \subseteq Pending
    BY DEF Pending
  <2>2. QED
    BY <1>1, <1>6, <2>1 DEF BatchesApart
<1>11. BatchesHeld'
  BY <1>1, <1>4 DEF BatchesHeld
<1>12. MutexHeld'
  BY <1>1, <1>4 DEF MutexHeld
<1>13. Roles'
  BY <1>4, <1>5 DEF Roles, Threads
<1>14. Awake' = Awake /\ Cardinality(Asleep') = Cardinality(Asleep)
  BY <1>1, <1>4 DEF Awake, Asleep
<1>15. Counted'
  BY <1>1, <1>14 DEF Counted
<1>16. VerdictSoFar'
  <2>1. added' \ Pending' = added \ Pending
    BY <1>1, <1>6 DEF TodoCounted
  <2>2. ~(added \subseteq Good) => ~(added' \subseteq Good)
    BY <1>1
  <2>3. QED
    BY <1>1, <1>4, <1>5, <2>1, <2>2 DEF VerdictSoFar
<1>17. CleanWhenIdle'
  BY <1>5 DEF CleanWhenIdle
<1>18. QED
  BY <1>8, <1>9, <1>10, <1>11, <1>12, <1>13, <1>15, <1>16, <1>17

(* Entering the critical section: the batch, if there is one, is merged     *)
(* into the verdict and taken off nTodo.                                    *)
LEMMA EnterStep ==
    ASSUME IInv, NEW t \in Threads, Enter(t)
    PROVE  IInv'
<1> USE DEF IInv
<1>1. /\ pc[t] = "lock" /\ mutex = NoThread /\ mutex' = t /\ t # NoThread
      /\ UNCHANGED <<queue, nIdle, fOk, interrupt, added, result, blocks, spurious>>
  BY QueueAssumption DEF Enter, blockVars
<1>2. /\ vChecks' = [vChecks EXCEPT ![t] = {}]
      /\ vChecks[t] # {} => /\ fAllOk' = (fAllOk /\ fOk[t]) /\ nTotal' = nTotal
                            /\ nTodo' = nTodo - Cardinality(vChecks[t])
      /\ vChecks[t] = {} => /\ fAllOk' = fAllOk /\ nTodo' = nTodo
                            /\ nTotal' = nTotal + 1
  BY DEF Enter, Merged, BatchCount, TypeOK
<1>3. /\ pc' \in [Threads -> {"idle", "adding", "aborted", "lock", "loop", "waiting",
                              "woken", "run", "done"}]
      /\ pc'[t] = "loop"
      /\ \A u \in Threads \ {t} : \/ pc'[u] = pc[u]
                                  \/ pc[u] = "waiting" /\ pc'[u] = "woken"
  BY DEF Enter, TypeOK
<1>4. /\ vChecks'[t] = {}
      /\ \A u \in Threads \ {t} : vChecks'[u] = vChecks[u]
  BY <1>2 DEF TypeOK
<1>5. Pending' = Pending \ vChecks[t] /\ vChecks[t] \subseteq Pending
  BY <1>1, <1>4 DEF Pending, BatchesApart
<1>6. /\ IsFiniteSet(Pending) /\ Cardinality(Pending) \in Nat
      /\ Cardinality(Pending') = Cardinality(Pending) - Cardinality(vChecks[t])
      /\ Cardinality(Pending') \in Nat /\ Cardinality(vChecks[t]) \in Nat
  <2>1. IsFiniteSet(Pending) /\ Pending \cap vChecks[t] = vChecks[t]
    BY <1>5, PendingFinite
  <2>2. IsFiniteSet(Pending') /\ IsFiniteSet(vChecks[t])
    BY <1>5, <2>1, FS_Subset
  <2>3. Cardinality(Pending \ vChecks[t]) = Cardinality(Pending) - Cardinality(Pending \cap vChecks[t])
    BY <2>1, FS_Difference
  <2>4. /\ Cardinality(Pending) \in Nat /\ Cardinality(Pending') \in Nat
        /\ Cardinality(vChecks[t]) \in Nat
    BY <2>1, <2>2, FS_CardinalityType
  <2>5. QED
    BY <1>5, <2>1, <2>3, <2>4
<1>7. TodoCounted'
  <2>1. vChecks[t] = {} => Pending' = Pending
    BY <1>5
  <2>2. QED
    BY <1>1, <1>2, <1>5, <1>6, <2>1 DEF TodoCounted
<1>8. TypeOK'
  <2>1. nTodo' \in Nat
    BY <1>6, <1>7 DEF TodoCounted
  <2>2. nTotal' \in Nat /\ fAllOk' \in BOOLEAN /\ vChecks' \in [Threads -> SUBSET Checks]
    BY <1>2 DEF TypeOK
  <2>3. QED
    BY <1>1, <1>3, <2>1, <2>2 DEF TypeOK
<1>9. BatchesApart' /\ BatchesHeld'
  BY <1>1, <1>3, <1>4 DEF BatchesApart, BatchesHeld
<1>10. MutexHeld'
  BY <1>1, <1>3, QueueAssumption DEF MutexHeld
<1>11. Roles'
  BY <1>3, QueueAssumption DEF Roles, Threads
<1>12. Counted'
  <2>1. Awake' = Awake \cup {t} /\ (t \in Awake <=> vChecks[t] # {})
    BY <1>1, <1>3, <1>4 DEF Awake
  <2>2. Asleep' = Asleep
    BY <1>1, <1>3 DEF Asleep
  <2>3. IsFiniteSet(Awake) /\ Cardinality(Awake) \in Nat
    BY ThreadSubset DEF Awake
  <2>4. Cardinality(Awake') = IF vChecks[t] # {} THEN Cardinality(Awake)
                                                 ELSE Cardinality(Awake) + 1
    BY <2>1, <2>3, FS_AddElement
  <2>5. QED
    BY <1>1, <1>2, <2>2, <2>3, <2>4 DEF Counted, TypeOK
<1>13. pc'[Master] \in {"idle", "aborted"} <=> pc[Master] \in {"idle", "aborted"}
  <2>1. CASE t = Master
    BY <1>1, <1>3, <2>1
  <2>2. CASE t # Master
    <3>1. Master \in Threads \ {t}
      BY <2>2 DEF Threads
    <3>2. pc'[Master] = pc[Master] \/ (pc[Master] = "waiting" /\ pc'[Master] = "woken")
      BY <1>3, <3>1
    <3>3. QED
      BY <3>2
  <2>3. QED
    BY <2>1, <2>2
<1>14. VerdictSoFar'
  <2> SUFFICES ASSUME pc[Master] \notin {"idle", "aborted"} PROVE VerdictSoFar'
    BY <1>13 DEF VerdictSoFar
  <2>1. ASSUME fAllOk' PROVE added' \ Pending' \subseteq Good
    <3>1. fAllOk /\ (vChecks[t] # {} => fOk[t])
      BY <1>2, <2>1
    <3>2. vChecks[t] \subseteq Good
      BY <1>1, <3>1 DEF VerdictSoFar
    <3>3. added' \ Pending' \subseteq (added \ Pending) \cup vChecks[t]
      BY <1>1, <1>5
    <3>4. QED
      BY <3>1, <3>2, <3>3 DEF VerdictSoFar
  <2>2. ASSUME ~fAllOk' PROVE ~(added' \subseteq Good)
    <3>1. ~fAllOk \/ (vChecks[t] # {} /\ ~fOk[t])
      BY <1>2, <2>2
    <3>2. ~(added \subseteq Good)
      BY <3>1 DEF VerdictSoFar
    <3>3. QED
      BY <1>1, <3>2
  <2>3. ASSUME NEW u \in Threads, vChecks'[u] # {}
        PROVE  /\ ~fOk'[u] => ~(added' \subseteq Good)
               /\ pc'[u] = "lock" /\ fOk'[u] => vChecks'[u] \subseteq Good
    <3>1. u # t /\ vChecks'[u] = vChecks[u] /\ (pc'[u] = "lock" => pc[u] = "lock")
      BY <1>3, <1>4, <2>3
    <3>2. QED
      BY <1>1, <2>3, <3>1 DEF VerdictSoFar
  <2>4. QED
    BY <2>1, <2>2, <2>3 DEF VerdictSoFar
<1>15. CleanWhenIdle'
  <2>1. Pending = {} => vChecks[t] = {}
    BY <1>5
  <2>2. pc'[Master] = "idle" => pc[Master] = "idle"
    BY <1>1, <1>3 DEF Threads
  <2>3. ASSUME pc'[Master] = "idle" PROVE Pending' = {} /\ fAllOk'
    <3>1. Pending = {} /\ fAllOk
      BY <2>2, <2>3 DEF CleanWhenIdle
    <3>2. fAllOk' = fAllOk /\ Pending' = {}
      BY <1>2, <1>5, <2>1, <3>1
    <3>3. QED
      BY <3>1, <3>2
  <2>4. QED
    BY <2>3 DEF CleanWhenIdle
<1>16. QED
  BY <1>7, <1>8, <1>9, <1>10, <1>11, <1>12, <1>14, <1>15

(* A step that only moves threads about: checks, batches and verdict keep   *)
(* their relation when no thread comes to "lock" with a batch unrun.        *)
LEMMA QueueFrame ==
    ASSUME IInv, UNCHANGED <<queue, vChecks, fAllOk, nTodo, added, fOk>>,
           \A u \in Threads : pc'[u] = "lock" /\ vChecks[u] # {} => pc[u] = "lock",
           pc'[Master] \in {"idle", "aborted"} <=> pc[Master] \in {"idle", "aborted"},
           pc'[Master] = "idle" => pc[Master] = "idle"
    PROVE  BatchesApart' /\ TodoCounted' /\ VerdictSoFar' /\ CleanWhenIdle'
<1>1. Pending' = Pending /\ BatchesApart'
  BY PendingFrame DEF IInv
<1>2. TodoCounted' /\ CleanWhenIdle'
  BY <1>1 DEF IInv, TodoCounted, CleanWhenIdle
<1>3. VerdictSoFar'
  BY <1>1 DEF IInv, VerdictSoFar
<1>4. QED
  BY <1>1, <1>2, <1>3

(* Moving one thread from x to y changes Awake and Asleep by that thread.   *)
LEMMA Moved ==
    ASSUME IInv, NEW t \in Threads, UNCHANGED vChecks, vChecks[t] = {},
           NEW y, pc' = [pc EXCEPT ![t] = y]
    PROVE  /\ Cardinality(Awake) \in Nat /\ Cardinality(Asleep) \in Nat
           /\ y = "loop" /\ pc[t] = "woken" =>
                 /\ Cardinality(Awake') = Cardinality(Awake) + 1
                 /\ Cardinality(Asleep') = Cardinality(Asleep) - 1
           /\ y \in {"waiting", "lock", "done", "idle"} /\ pc[t] = "loop" =>
                 /\ Cardinality(Awake') = Cardinality(Awake) - 1
                 /\ Cardinality(Asleep') = IF y = "waiting" THEN Cardinality(Asleep) + 1
                                                            ELSE Cardinality(Asleep)
           /\ y \in {"lock", "done"} /\ pc[t] \in {"waiting", "woken"} =>
                 /\ Awake' = Awake
                 /\ Cardinality(Asleep') = Cardinality(Asleep) - 1
<1>1. pc'[t] = y /\ \A u \in Threads \ {t} : pc'[u] = pc[u]
  BY DEF IInv, TypeOK
<1>2. IsFiniteSet(Awake) /\ IsFiniteSet(Asleep)
      /\ Cardinality(Awake) \in Nat /\ Cardinality(Asleep) \in Nat
  BY ThreadSubset DEF Awake, Asleep
<1>3. Awake' = IF y \in {"loop", "run"} THEN Awake \cup {t} ELSE Awake \ {t}
  BY <1>1 DEF Awake
<1>4. Asleep' = IF y \in {"waiting", "woken"} THEN Asleep \cup {t} ELSE Asleep \ {t}
  BY <1>1 DEF Asleep
<1>5. /\ t \in Awake <=> pc[t] \in {"loop", "run"}
      /\ t \in Asleep <=> pc[t] \in {"waiting", "woken"}
  BY DEF Awake, Asleep
<1>6. /\ Cardinality(Awake \cup {t}) = IF t \in Awake THEN Cardinality(Awake)
                                                      ELSE Cardinality(Awake) + 1
      /\ Cardinality(Awake \ {t}) = IF t \in Awake THEN Cardinality(Awake) - 1
                                                   ELSE Cardinality(Awake)
  BY <1>2, FS_AddElement, FS_RemoveElement
<1>7. /\ Cardinality(Asleep \cup {t}) = IF t \in Asleep THEN Cardinality(Asleep)
                                                        ELSE Cardinality(Asleep) + 1
      /\ Cardinality(Asleep \ {t}) = IF t \in Asleep THEN Cardinality(Asleep) - 1
                                                     ELSE Cardinality(Asleep)
  BY <1>2, FS_AddElement, FS_RemoveElement
<1>8. QED
  BY <1>2, <1>3, <1>4, <1>5, <1>6, <1>7

LEMMA SleepStep ==
    ASSUME IInv, NEW t \in Threads, Sleep(t)
    PROVE  IInv'
<1> USE DEF IInv
<1>1. /\ mutex = t /\ pc[t] = "loop" /\ mutex' = NoThread /\ nIdle' = nIdle + 1
      /\ UNCHANGED <<queue, fAllOk, nTodo, nTotal, vChecks, fOk, added, result, blocks,
                     spurious>>
  BY DEF Sleep, queueVars, localVars, blockVars
<1>2. PICK y \in {"waiting", "lock", "done"} :
         /\ pc' = [pc EXCEPT ![t] = y]
         /\ y = "lock" => t = Master
         /\ y = "done" => t # Master
         /\ interrupt' \in [Threads -> {"no", "pending", "taken"}]
  BY DEF Sleep, Thrown, TypeOK
<1>3. pc'[t] = y /\ \A u \in Threads \ {t} : pc'[u] = pc[u]
  BY <1>2 DEF TypeOK
<1>4. vChecks[t] = {} /\ NoThread \notin Threads
  BY <1>1, QueueAssumption DEF BatchesHeld
<1>5. BatchesApart' /\ TodoCounted' /\ VerdictSoFar' /\ CleanWhenIdle'
  <2>1. pc'[Master] \in {"idle", "aborted"} <=> pc[Master] \in {"idle", "aborted"}
    BY <1>1, <1>3 DEF Threads
  <2>2. pc'[Master] = "idle" => pc[Master] = "idle"
    BY <1>1, <1>3 DEF Threads
  <2>3. QED
    BY <1>1, <1>3, <1>4, <2>1, <2>2, QueueFrame
<1>6. Counted'
  <2>1. /\ Cardinality(Awake) \in Nat /\ Cardinality(Asleep) \in Nat
        /\ Cardinality(Awake') = Cardinality(Awake) - 1
        /\ Cardinality(Asleep') = IF y = "waiting" THEN Cardinality(Asleep) + 1
                                                   ELSE Cardinality(Asleep)
    BY <1>1, <1>2, <1>4, Moved
  <2>2. Cardinality(Asleep') \in Nat /\ Cardinality(Asleep') <= Cardinality(Asleep) + 1
    BY <2>1
  <2>3. nTotal' = nIdle' + Cardinality(Awake')
    BY <1>1, <2>1 DEF Counted, TypeOK
  <2>4. QED
    BY <1>1, <2>1, <2>2, <2>3 DEF Counted, TypeOK
<1>7. MutexHeld' /\ BatchesHeld'
  BY <1>1, <1>3, <1>4 DEF MutexHeld, BatchesHeld
<1>8. Roles'
  BY <1>2, <1>3, QueueAssumption DEF Roles, Threads
<1>9. TypeOK'
  BY <1>1, <1>2 DEF TypeOK
<1>10. QED
  BY <1>5, <1>6, <1>7, <1>8, <1>9

LEMMA WakeStep ==
    ASSUME IInv, NEW t \in Threads, Wake(t)
    PROVE  IInv'
<1> USE DEF IInv
<1>1. /\ mutex = NoThread /\ pc[t] = "woken" /\ mutex' = t /\ nIdle' = nIdle - 1
      /\ pc' = [pc EXCEPT ![t] = "loop"]
      /\ UNCHANGED <<queue, fAllOk, nTodo, nTotal, vChecks, fOk, added, result, blocks,
                     spurious, interrupt>>
  BY DEF Wake, queueVars, localVars, blockVars
<1>2. pc'[t] = "loop" /\ \A u \in Threads \ {t} : pc'[u] = pc[u]
  BY <1>1 DEF TypeOK
<1>3. vChecks[t] = {} /\ NoThread \notin Threads
  BY <1>1, QueueAssumption DEF BatchesHeld
<1>4. BatchesApart' /\ TodoCounted' /\ VerdictSoFar' /\ CleanWhenIdle'
  <2>1. pc'[Master] \in {"idle", "aborted"} <=> pc[Master] \in {"idle", "aborted"}
    BY <1>1, <1>2 DEF Threads
  <2>2. pc'[Master] = "idle" => pc[Master] = "idle"
    BY <1>1, <1>2 DEF Threads
  <2>3. QED
    BY <1>1, <1>2, <2>1, <2>2, QueueFrame
<1>5. /\ Cardinality(Awake) \in Nat /\ Cardinality(Asleep) \in Nat
      /\ Cardinality(Awake') = Cardinality(Awake) + 1
      /\ Cardinality(Asleep') = Cardinality(Asleep) - 1
  BY <1>1, <1>3, Moved
<1>6. Counted'
  BY <1>1, <1>5 DEF Counted, TypeOK
<1>7. MutexHeld' /\ BatchesHeld'
  BY <1>1, <1>2, <1>3 DEF MutexHeld, BatchesHeld
<1>8. Roles'
  BY <1>2, QueueAssumption DEF Roles, Threads
<1>9. TypeOK'
  <2>1. Cardinality(Asleep') \in Nat
    BY ThreadSubset DEF Asleep
  <2>2. nIdle - 1 >= 0
    BY <1>1, <1>6, <2>1 DEF Counted, TypeOK
  <2>3. QED
    BY <1>1, <2>2 DEF TypeOK
<1>10. QED
  BY <1>4, <1>6, <1>7, <1>8, <1>9

(* nNow is at least one. *)
LEMMA BatchNotEmpty ==
    ASSUME IInv, NEW batch, Cardinality(batch) = nNow
    PROVE  batch # {}
<1>1. nTotal + nIdle + 1 \in Nat \ {0}
  BY DEF IInv, TypeOK
<1>2. Cardinality(queue) \in Nat
  BY QueueAssumption, FS_Subset, FS_CardinalityType DEF IInv, TypeOK
<1>3. Cardinality(queue) \div (nTotal + nIdle + 1) \in Int
  BY <1>1, <1>2
<1>4. nNow >= 1
  BY <1>3, QueueAssumption DEF nNow, Max2, Min2
<1>5. QED
  BY <1>4, FS_EmptySet

LEMMA TakeStep ==
    ASSUME IInv, NEW t \in Threads, TakeBatch(t)
    PROVE  IInv'
<1> USE DEF IInv
<1>1. /\ mutex = t /\ pc[t] = "loop" /\ mutex' = NoThread
      /\ pc' = [pc EXCEPT ![t] = "run"] /\ fOk' = [fOk EXCEPT ![t] = fAllOk]
      /\ UNCHANGED <<fAllOk, nTodo, nIdle, nTotal, added, result, blocks, spurious,
                     interrupt>>
  BY DEF TakeBatch, countVars, blockVars
<1>2. PICK batch \in SUBSET queue :
         /\ Cardinality(batch) = nNow
         /\ vChecks' = [vChecks EXCEPT ![t] = batch]
         /\ queue' = queue \ batch
  BY DEF TakeBatch
<1>3. batch # {}
  BY <1>2, BatchNotEmpty
<1>4. /\ pc'[t] = "run" /\ vChecks'[t] = batch /\ fOk'[t] = fAllOk
      /\ \A u \in Threads \ {t} :
            pc'[u] = pc[u] /\ vChecks'[u] = vChecks[u] /\ fOk'[u] = fOk[u]
  BY <1>1, <1>2 DEF TypeOK
<1>5. vChecks[t] = {} /\ NoThread \notin Threads
  BY <1>1, QueueAssumption DEF BatchesHeld
<1>6. Pending' = Pending
  <2>1. Pending' \subseteq Pending
    BY <1>2, <1>4 DEF Pending
  <2>2. ASSUME NEW c \in Pending PROVE c \in Pending'
    <3>1. CASE c \in queue
      BY <1>2, <1>4, <3>1 DEF Pending
    <3>2. CASE c \notin queue
      <4>1. PICK u \in Threads : c \in vChecks[u]
        BY <3>2 DEF Pending
      <4>2. u # t /\ c \in vChecks'[u]
        BY <1>4, <1>5, <4>1
      <4>3. QED
        BY <4>2 DEF Pending
    <3>3. QED
      BY <3>1, <3>2
  <2>3. QED
    BY <2>1, <2>2
<1>7. TodoCounted'
  BY <1>1, <1>6 DEF TodoCounted
<1>8. BatchesApart' /\ BatchesHeld'
  BY <1>1, <1>2, <1>3, <1>4 DEF BatchesApart, BatchesHeld
<1>9. MutexHeld'
  BY <1>1, <1>4, <1>5 DEF MutexHeld
<1>10. Roles'
  BY <1>4, QueueAssumption DEF Roles, Threads
<1>11. Awake' = Awake /\ Asleep' = Asleep
  BY <1>1, <1>4 DEF Awake, Asleep
<1>12. Counted'
  BY <1>1, <1>11 DEF Counted
<1>13. TypeOK'
  BY <1>1, <1>2 DEF TypeOK
<1>14. /\ pc'[Master] \in {"idle", "aborted"} <=> pc[Master] \in {"idle", "aborted"}
       /\ pc'[Master] = "idle" => pc[Master] = "idle"
  BY <1>1, <1>4 DEF Threads
<1>15. CleanWhenIdle'
  BY <1>1, <1>6, <1>14 DEF CleanWhenIdle
<1>16. VerdictSoFar'
  <2>1. ASSUME pc[Master] \notin {"idle", "aborted"}, NEW u \in Threads, vChecks'[u] # {}
        PROVE  /\ ~fOk'[u] => ~(added' \subseteq Good)
               /\ pc'[u] = "lock" /\ fOk'[u] => vChecks'[u] \subseteq Good
    <3>1. CASE u = t
      BY <1>1, <1>4, <2>1, <3>1 DEF VerdictSoFar
    <3>2. CASE u # t
      BY <1>1, <1>4, <2>1, <3>2 DEF VerdictSoFar
    <3>3. QED
      BY <3>1, <3>2
  <2>2. QED
    BY <1>1, <1>6, <1>14, <2>1 DEF VerdictSoFar
<1>17. QED
  BY <1>7, <1>8, <1>9, <1>10, <1>12, <1>13, <1>15, <1>16

LEMMA RunStep ==
    ASSUME IInv, NEW t \in Threads, Run(t)
    PROVE  IInv'
<1> USE DEF IInv
<1>1. /\ pc[t] = "run" /\ pc' = [pc EXCEPT ![t] = "lock"]
      /\ fOk' = [fOk EXCEPT ![t] = fOk[t] /\ vChecks[t] \subseteq Good]
      /\ UNCHANGED <<queue, fAllOk, nTodo, nIdle, nTotal, mutex, vChecks, added, result,
                     blocks, spurious, interrupt>>
  BY DEF Run, queueVars, countVars, blockVars
<1>2. /\ pc'[t] = "lock" /\ vChecks[t] # {}
      /\ fOk'[t] <=> fOk[t] /\ vChecks[t] \subseteq Good
      /\ \A u \in Threads \ {t} : pc'[u] = pc[u] /\ fOk'[u] = fOk[u]
  BY <1>1 DEF TypeOK, BatchesHeld
<1>3. Pending' = Pending /\ BatchesApart' /\ vChecks[t] \subseteq Pending
  BY <1>1, PendingFrame DEF Pending
<1>4. TodoCounted'
  BY <1>1, <1>3 DEF TodoCounted
<1>5. BatchesHeld' /\ MutexHeld'
  BY <1>1, <1>2 DEF BatchesHeld, MutexHeld
<1>6. Roles'
  BY <1>2, QueueAssumption DEF Roles, Threads
<1>7. Awake' = Awake /\ Asleep' = Asleep
  BY <1>1, <1>2 DEF Awake, Asleep
<1>8. Counted'
  BY <1>1, <1>7 DEF Counted
<1>9. TypeOK'
  BY <1>1 DEF TypeOK
<1>10. /\ pc'[Master] \in {"idle", "aborted"} <=> pc[Master] \in {"idle", "aborted"}
       /\ pc'[Master] = "idle" => pc[Master] = "idle"
  BY <1>1, <1>2 DEF Threads
<1>11. CleanWhenIdle'
  BY <1>1, <1>3, <1>10 DEF CleanWhenIdle
<1>12. VerdictSoFar'
  <2>1. ASSUME pc[Master] \notin {"idle", "aborted"}, NEW u \in Threads, vChecks[u] # {}
        PROVE  /\ ~fOk'[u] => ~(added \subseteq Good)
               /\ pc'[u] = "lock" /\ fOk'[u] => vChecks[u] \subseteq Good
    <3>1. CASE u = t
      <4>1. vChecks[t] \subseteq added
        BY <1>3 DEF TodoCounted
      <4>2. ~fOk[t] => ~(added \subseteq Good)
        BY <1>2, <2>1 DEF VerdictSoFar
      <4>3. QED
        BY <1>2, <3>1, <4>1, <4>2
    <3>2. CASE u # t
      BY <1>2, <2>1, <3>2 DEF VerdictSoFar
    <3>3. QED
      BY <3>1, <3>2
  <2>2. QED
    BY <1>1, <1>3, <1>10, <2>1 DEF VerdictSoFar
<1>13. QED
  BY <1>3, <1>4, <1>5, <1>6, <1>8, <1>9, <1>11, <1>12

(* When the master returns nothing is pending. *)
LEMMA NothingPending ==
    ASSUME IInv, nTodo = 0
    PROVE  Pending = {} /\ \A t \in Threads : vChecks[t] = {}
<1>1. Pending = {}
  BY PendingFinite, FS_EmptySet DEF IInv, TodoCounted
<1>2. QED
  BY <1>1 DEF Pending

LEMMA ReturnStep ==
    ASSUME IInv, Return
    PROVE  IInv'
<1> USE DEF IInv
<1>1. /\ mutex = Master /\ pc[Master] = "loop" /\ mutex' = NoThread /\ fAllOk' = TRUE
      /\ pc' = [pc EXCEPT ![Master] = "idle"] /\ nTotal' = nTotal - 1 /\ nTodo = 0
      /\ result' = fAllOk
      /\ UNCHANGED <<queue, nTodo, nIdle, vChecks, fOk, added, blocks, spurious,
                     interrupt>>
  BY DEF Return, ResetAllOk, localVars
<1>2. Master \in Threads /\ NoThread \notin Threads
  BY QueueAssumption DEF Threads
<1>3. pc'[Master] = "idle" /\ \A u \in Threads \ {Master} : pc'[u] = pc[u]
  BY <1>1, <1>2 DEF TypeOK
<1>4. Pending = {} /\ \A t \in Threads : vChecks[t] = {}
  BY <1>1, NothingPending
<1>5. Pending' = Pending /\ BatchesApart'
  BY <1>1, PendingFrame
<1>6. TodoCounted' /\ VerdictSoFar' /\ CleanWhenIdle'
  BY <1>1, <1>3, <1>4, <1>5 DEF TodoCounted, VerdictSoFar, CleanWhenIdle
<1>7. /\ Cardinality(Awake) \in Nat /\ Cardinality(Asleep) \in Nat
      /\ Cardinality(Awake') = Cardinality(Awake) - 1
      /\ Cardinality(Asleep') = Cardinality(Asleep)
  BY <1>1, <1>2, <1>4, Moved
<1>8. Counted' /\ nTotal' \in Nat
  <2>1. Cardinality(Awake') \in Nat
    BY ThreadSubset DEF Awake
  <2>2. nTotal' = nIdle' + Cardinality(Awake')
    BY <1>1, <1>7 DEF Counted, TypeOK
  <2>3. QED
    BY <1>1, <1>7, <2>1, <2>2 DEF Counted, TypeOK
<1>9. MutexHeld' /\ BatchesHeld'
  BY <1>1, <1>2, <1>3, <1>4 DEF MutexHeld, BatchesHeld
<1>10. Roles'
  BY <1>3, QueueAssumption DEF Roles, Threads
<1>11. TypeOK'
  BY <1>1, <1>8 DEF TypeOK
<1>12. QED
  BY <1>5, <1>6, <1>8, <1>9, <1>10, <1>11

LEMMA InterruptedStep ==
    ASSUME IInv, NEW t \in Threads, InterruptedWait(t)
    PROVE  IInv'
<1> USE DEF IInv
<1> DEFINE y == IF t = Master THEN "lock" ELSE "done"
<1>1. /\ pc[t] \in {"waiting", "woken"} /\ pc' = [pc EXCEPT ![t] = y]
      /\ interrupt' \in [Threads -> {"no", "pending", "taken"}]
      /\ UNCHANGED <<queue, fAllOk, nTodo, nIdle, nTotal, mutex, vChecks, fOk, added,
                     result, blocks, spurious>>
  BY DEF InterruptedWait, Thrown, TypeOK, queueVars, countVars, localVars, blockVars
<1>2. y \in {"lock", "done"} /\ (y = "done" => t # Master)
  OBVIOUS
<1> HIDE DEF y
<1>3. pc'[t] = y /\ \A u \in Threads \ {t} : pc'[u] = pc[u]
  BY <1>1 DEF TypeOK
<1>4. vChecks[t] = {}
  BY <1>1 DEF BatchesHeld
<1>5. BatchesApart' /\ TodoCounted' /\ VerdictSoFar' /\ CleanWhenIdle'
  <2>1. pc'[Master] \in {"idle", "aborted"} <=> pc[Master] \in {"idle", "aborted"}
    BY <1>1, <1>2, <1>3 DEF Threads
  <2>2. pc'[Master] = "idle" => pc[Master] = "idle"
    BY <1>1, <1>2, <1>3 DEF Threads
  <2>3. QED
    BY <1>1, <1>3, <1>4, <2>1, <2>2, QueueFrame
<1>6. /\ Cardinality(Awake) \in Nat /\ Cardinality(Asleep) \in Nat
      /\ Awake' = Awake /\ Cardinality(Asleep') = Cardinality(Asleep) - 1
  BY <1>1, <1>2, <1>4, Moved
<1>7. Counted'
  BY <1>1, <1>6 DEF Counted, TypeOK
<1>8. MutexHeld' /\ BatchesHeld'
  BY <1>1, <1>2, <1>3, <1>4 DEF MutexHeld, BatchesHeld
<1>9. Roles'
  BY <1>2, <1>3, QueueAssumption DEF Roles, Threads
<1>10. TypeOK'
  BY <1>1, <1>2 DEF TypeOK
<1>11. QED
  BY <1>5, <1>7, <1>8, <1>9, <1>10

(* Steps that only move one thread between places of the same kind. *)
LEMMA SameKindStep ==
    ASSUME IInv, NEW t \in Threads, NEW y,
           \/ pc[t] = "waiting" /\ y = "woken"
           \/ pc[t] = "adding" /\ y = "lock",
           pc' = [pc EXCEPT ![t] = y],
           UNCHANGED <<queueVars, countVars, mutex, localVars, added>>
    PROVE  /\ BatchesApart' /\ BatchesHeld' /\ MutexHeld' /\ Roles'
           /\ TodoCounted' /\ Counted' /\ VerdictSoFar' /\ CleanWhenIdle'
<1> USE DEF IInv
<1>1. UNCHANGED <<queue, fAllOk, nTodo, nIdle, nTotal, mutex, vChecks, fOk, added>>
  BY DEF queueVars, countVars, localVars
<1>2. pc'[t] = y /\ \A u \in Threads \ {t} : pc'[u] = pc[u]
  BY DEF TypeOK
<1>3. vChecks[t] = {}
  BY DEF BatchesHeld
<1>4. BatchesApart' /\ TodoCounted' /\ VerdictSoFar' /\ CleanWhenIdle'
  <2>1. pc'[Master] \in {"idle", "aborted"} <=> pc[Master] \in {"idle", "aborted"}
    BY <1>2 DEF Threads
  <2>2. pc'[Master] = "idle" => pc[Master] = "idle"
    BY <1>2 DEF Threads
  <2>3. QED
    BY <1>1, <1>2, <1>3, <2>1, <2>2, QueueFrame
<1>5. Awake' = Awake /\ Asleep' = Asleep
  BY <1>1, <1>2, <1>3 DEF Awake, Asleep
<1>6. Counted'
  BY <1>1, <1>5 DEF Counted
<1>7. MutexHeld' /\ BatchesHeld'
  BY <1>1, <1>2, <1>3 DEF MutexHeld, BatchesHeld
<1>8. Roles'
  BY <1>2, QueueAssumption DEF Roles, Threads
<1>9. QED
  BY <1>4, <1>6, <1>7, <1>8

LEMMA IInvStep == IInv /\ [Next]_vars => IInv'
<1> SUFFICES ASSUME IInv, [Next]_vars PROVE IInv'
  OBVIOUS
<1>1. CASE Control
  BY <1>1, ControlStep
<1>2. ASSUME NEW batch \in SUBSET Checks, Add(batch) PROVE IInv'
  BY <1>2, AddStep
<1>3. ASSUME NEW t \in Threads, ThreadStep(t) PROVE IInv'
  <2>1. CASE t = Master /\ Wait
    <3>1. TypeOK'
      BY <2>1 DEF IInv, TypeOK, Wait, queueVars, countVars, localVars, blockVars
    <3>2. QED
      BY <2>1, <3>1, SameKindStep DEF Wait, IInv, blockVars
  <2>2. QED
    BY <1>3, <2>1, EnterStep, SleepStep, WakeStep, InterruptedStep, TakeStep, RunStep,
       ReturnStep DEF ThreadStep
<1>4. ASSUME NEW t \in Threads, SpuriousWake(t) PROVE IInv'
  <2>1. TypeOK'
    BY <1>4, QueueAssumption
       DEF IInv, TypeOK, SpuriousWake, queueVars, countVars, localVars, blockVars
  <2>2. QED
    BY <1>4, <2>1, SameKindStep DEF SpuriousWake, IInv, blockVars
<1>5. CASE InterruptAll \/ UNCHANGED vars
  <2>1. UNCHANGED <<queue, fAllOk, nTodo, nIdle, nTotal, mutex, pc, vChecks, fOk, added,
                    result, blocks, spurious>>
        /\ interrupt' \in [Threads -> {"no", "pending", "taken"}]
    BY <1>5 DEF InterruptAll, vars, queueVars, countVars, localVars, blockVars, IInv, TypeOK
  <2>2. Pending' = Pending /\ Awake' = Awake /\ Asleep' = Asleep
    BY <2>1 DEF Pending, Awake, Asleep
  <2>3. TypeOK'
    BY <2>1 DEF IInv, TypeOK
  <2>4. BatchesApart' /\ BatchesHeld' /\ MutexHeld' /\ Roles'
    BY <2>1 DEF IInv, BatchesApart, BatchesHeld, MutexHeld, Roles
  <2>5. TodoCounted' /\ Counted' /\ VerdictSoFar' /\ CleanWhenIdle'
    BY <2>1, <2>2 DEF IInv, TodoCounted, Counted, VerdictSoFar, CleanWhenIdle
  <2>6. QED
    BY <2>3, <2>4, <2>5 DEF IInv
<1>6. QED
  BY <1>1, <1>2, <1>3, <1>4, <1>5 DEF Next

THEOREM InvariantHolds == Spec => []IInv
BY IInvInit, IInvStep, PTL DEF Spec

-----------------------------------------------------------------------------
(* The counters and flags keep their types: in particular nTodo, nIdle and  *)
(* nTotal never go below zero.                                              *)
THEOREM TypeCorrect == Spec => []TypeOK
<1>1. IInv => TypeOK
  BY DEF IInv
<1>2. QED
  BY <1>1, InvariantHolds, PTL

(* Between two blocks the queue is as the next control's constructor        *)
(* asserts, whenever nobody is inside a critical section: only because the  *)
(* constructor reads the counters without the mutex can its assertion fail. *)
THEOREM QueueUnusedBetweenBlocks == Spec => []UnusedBetweenBlocks
<1>1. ASSUME IInv, pc[Master] = "idle"
      PROVE  /\ queue = {} /\ nTodo = 0 /\ fAllOk
             /\ \A t \in Threads : vChecks[t] = {}
             /\ mutex = NoThread => nTotal = nIdle
  <2>1. Pending = {} /\ fAllOk
    BY <1>1 DEF IInv, CleanWhenIdle
  <2>2. nTodo = 0 /\ queue = {} /\ \A t \in Threads : vChecks[t] = {}
    BY <1>1, <2>1, FS_EmptySet DEF IInv, TodoCounted, Pending
  <2>3. ASSUME mutex = NoThread PROVE nTotal = nIdle
    <3>1. Awake = {}
      BY <1>1, <2>2, <2>3, QueueAssumption DEF IInv, Awake, MutexHeld, BatchesHeld
    <3>2. QED
      BY <1>1, <3>1, FS_EmptySet DEF IInv, Counted, TypeOK
  <2>4. QED
    BY <2>1, <2>2, <2>3
<1>2. IInv => UnusedBetweenBlocks
  BY <1>1 DEF UnusedBetweenBlocks
<1>3. QED
  BY <1>2, InvariantHolds, PTL

-----------------------------------------------------------------------------
(* The pool implements CheckVerdict: for any number of workers, checks and  *)
(* blocks, through interruptions and spurious wake-ups, Wait returns the    *)
(* conjunction of the checks added under the control it belongs to.         *)
THEOREM VerdictCorrect == Spec => VerdictIsConjunction
<1> DEFINE open == pc[Master] \notin {"idle", "aborted"}
<1>1. Init => Verdict!Init
  BY DEF Init, Verdict!Init, Threads
<1>2. ASSUME IInv, [Next]_vars
      PROVE  [Verdict!Next]_<<open, added, result>>
  <2>1. Master \in Threads
    BY DEF Threads
  <2>2. CASE Control
    <3>1. \/ pc'[Master] = "adding" /\ added' = {}
          \/ pc'[Master] = "aborted" /\ added' = added
      BY <1>2, <2>1, <2>2 DEF Control, IInv, TypeOK
    <3>2. QED
      BY <2>2, <3>1 DEF Control, Verdict!Next, Verdict!Begin
  <2>3. ASSUME NEW batch \in SUBSET Checks, Add(batch)
        PROVE  Verdict!Next
    <3>1. pc[Master] = "adding" /\ pc'[Master] = "adding"
      BY <1>2, <2>1, <2>3, QueueAssumption DEF Add, Notified, Waiting, IInv, TypeOK
    <3>2. QED
      BY <2>3, <3>1 DEF Add, Verdict!Next, Verdict!Add
  <2>4. CASE Return
    <3>1. nTodo = 0 /\ pc[Master] = "loop" /\ result' = fAllOk /\ added' = added
          /\ pc'[Master] = "idle"
      BY <1>2, <2>1, <2>4 DEF Return, IInv, TypeOK
    <3>2. Pending = {}
      BY <1>2, <3>1, NothingPending
    <3>3. fAllOk <=> added \subseteq Good
      BY <1>2, <3>1, <3>2 DEF IInv, VerdictSoFar
    <3>4. result' = (added \subseteq Good)
      BY <1>2, <3>1, <3>3 DEF IInv, TypeOK
    <3>5. QED
      BY <3>1, <3>4 DEF Verdict!Next, Verdict!Decide
  <2>5. ASSUME NEW t \in Threads, ThreadStep(t) \/ SpuriousWake(t), ~Return
        PROVE  UNCHANGED <<open, added, result>>
    <3>1. UNCHANGED <<added, result>>
      BY <2>5 DEF ThreadStep, Enter, Sleep, Wake, InterruptedWait, TakeBatch, Run, Wait,
                  SpuriousWake, blockVars
    <3>2. /\ pc[t] \notin {"idle", "aborted"} /\ pc'[t] \notin {"idle", "aborted"}
          /\ \A u \in Threads \ {t} : pc'[u] = pc[u] \/ (pc[u] = "waiting" /\ pc'[u] = "woken")
      BY <1>2, <2>5 DEF IInv, TypeOK, ThreadStep, Enter, Sleep, Wake, InterruptedWait, Thrown,
                        TakeBatch, Run, Wait, SpuriousWake
    <3>3. UNCHANGED open
      BY <2>1, <3>2
    <3>4. QED
      BY <3>1, <3>3
  <2>6. CASE InterruptAll \/ UNCHANGED vars
    BY <2>6 DEF InterruptAll, vars, blockVars
  <2>7. QED
    BY <1>2, <2>2, <2>3, <2>4, <2>5, <2>6 DEF Next
<1>3. QED
  BY <1>1, <1>2, InvariantHolds, PTL DEF Spec, VerdictIsConjunction, Verdict!Spec

-----------------------------------------------------------------------------
(* What keeps a worker at hand: the threads are interrupted all at once, and *)
(* a worker that has taken its interruption is at its end.                   *)
Interrupted ==
    (\E t \in Threads : interrupt[t] # "no") =>
        \A w \in Workers : pc[w] = "done" \/ interrupt[w] = "pending"

LEMMA NoticedInit == Init => Interrupted /\ WorkIsNoticed
BY DEF Init, Interrupted, WorkIsNoticed

(* A step after which thread u is at hand. *)
LEMMA NoticedBy ==
    ASSUME NEW u \in Threads,
           pc'[u] \in {"lock", "loop", "woken", "run"}
    PROVE  WorkIsNoticed'
BY DEF WorkIsNoticed

LEMMA InterruptedKept ==
    ASSUME IInv, Interrupted, [Next]_vars
    PROVE  Interrupted'
<1> USE DEF IInv, TypeOK, Interrupted
<1>1. Master \in Threads /\ Workers \subseteq Threads /\ Master \notin Workers
  BY QueueAssumption DEF Threads
<1>2. ASSUME interrupt' = interrupt, \A w \in Workers : pc[w] = "done" => pc'[w] = "done"
      PROVE  Interrupted'
  BY <1>2
<1>3. ASSUME NEW t \in Threads, Thrown(t), interrupt[t] = "pending" PROVE Interrupted'
  <2>1. \A u \in Threads \ {t} : pc'[u] = pc[u] /\ interrupt'[u] = interrupt[u]
    BY <1>3 DEF Thrown
  <2>2. t \in Workers => pc'[t] = "done"
    BY <1>1, <1>3 DEF Thrown
  <2> QED
    BY <1>1, <1>3, <2>1, <2>2
<1>4. CASE Control
  BY <1>1, <1>2, <1>4 DEF Control
<1>5. ASSUME NEW batch \in SUBSET Checks, Add(batch) PROVE Interrupted'
  <2>1. PICK woken \in Notified(batch) :
           pc' = [t \in Threads |-> IF t \in woken THEN "woken" ELSE pc[t]]
    BY <1>5 DEF Add
  <2>2. \A w \in Workers : pc[w] = "done" => w \notin woken
    BY <2>1 DEF Notified, Waiting
  <2> QED
    BY <1>1, <1>2, <1>5, <2>1, <2>2 DEF Add
<1>6. ASSUME NEW t \in Threads, Sleep(t) PROVE Interrupted'
  <2>1. CASE interrupt[t] = "pending"
    BY <1>3, <1>6, <2>1 DEF Sleep
  <2>2. CASE interrupt[t] # "pending"
    BY <1>1, <1>2, <1>6, <2>2 DEF Sleep
  <2> QED
    BY <2>1, <2>2
<1>7. ASSUME NEW t \in Threads, InterruptedWait(t) PROVE Interrupted'
  BY <1>3, <1>7 DEF InterruptedWait
<1>8. ASSUME NEW t \in Threads, Enter(t) \/ Wake(t) \/ TakeBatch(t) \/ Run(t) \/ SpuriousWake(t)
      PROVE  Interrupted'
  <2>1. interrupt' = interrupt /\ pc[t] # "done"
    BY <1>8 DEF Enter, Wake, TakeBatch, Run, SpuriousWake
  <2>2. \A u \in Threads \ {t} : pc[u] = "done" => pc'[u] = "done"
    BY <1>8 DEF Enter, Wake, TakeBatch, Run, SpuriousWake
  <2> QED
    BY <1>1, <1>2, <2>1, <2>2
<1>9. CASE Wait \/ Return
  BY <1>1, <1>2, <1>9 DEF Wait, Return
<1>10. CASE InterruptAll
  BY <1>1, <1>10 DEF InterruptAll
<1>11. CASE UNCHANGED vars
  BY <1>2, <1>11 DEF vars
<1> QED
  BY <1>4, <1>5, <1>6, <1>7, <1>8, <1>9, <1>10, <1>11 DEF Next, ThreadStep

LEMMA NoticedKept ==
    ASSUME IInv, Interrupted, WorkIsNoticed, [Next]_vars
    PROVE  WorkIsNoticed'
<1> USE DEF IInv, TypeOK
<1>1. Master \in Threads /\ Workers \subseteq Threads /\ Master \notin Workers
  BY QueueAssumption DEF Threads
<1>2. CASE Control
  <2>1. queue' = {}
    BY <1>2 DEF Control, queueVars, CleanWhenIdle, Pending
  <2> QED
    BY <2>1 DEF WorkIsNoticed
<1>3. ASSUME NEW batch \in SUBSET Checks, Add(batch) PROVE WorkIsNoticed'
  <2>1. PICK woken \in Notified(batch) :
           pc' = [t \in Threads |-> IF t \in woken THEN "woken" ELSE pc[t]]
    BY <1>3 DEF Add
  <2>2. CASE Waiting # {}
    <3>1. PICK u \in Workers : u \in woken
      BY <2>1, <2>2 DEF Notified, Waiting
    <3>2. pc'[u] = "woken"
      BY <1>1, <2>1, <3>1
    <3> QED
      BY <1>1, <3>1, <3>2, NoticedBy
  <2>3. CASE Waiting = {}
    <3>1. \A w \in Workers : pc'[w] = pc[w]
      BY <1>1, <2>1, <2>3 DEF Notified
    <3>2. \A w \in Workers : pc[w] \in {"lock", "loop", "woken", "run", "done"}
      BY <1>1, <2>3 DEF Waiting, Roles
    <3>3. CASE \A w \in Workers : pc[w] = "done"
      BY <3>1, <3>3 DEF WorkIsNoticed
    <3>4. ASSUME NEW w \in Workers, pc[w] # "done" PROVE WorkIsNoticed'
      <4>1. pc'[w] \in {"lock", "loop", "woken", "run"}
        BY <3>1, <3>2, <3>4
      <4> QED
        BY <1>1, <4>1, NoticedBy
    <3> QED
      BY <3>3, <3>4
  <2> QED
    BY <2>2, <2>3
<1>4. CASE Wait
  <2>1. pc'[Master] = "lock"
    BY <1>1, <1>4 DEF Wait
  <2> QED
    BY <1>1, <2>1, NoticedBy
<1>5. ASSUME NEW t \in Threads, Enter(t) \/ Wake(t) \/ TakeBatch(t) \/ Run(t) \/ SpuriousWake(t)
      PROVE  WorkIsNoticed'
  <2>1. pc'[t] \in {"lock", "loop", "woken", "run"}
    BY <1>5 DEF Enter, Wake, TakeBatch, Run, SpuriousWake
  <2> QED
    BY <2>1, NoticedBy
<1>6. ASSUME NEW t \in Threads, Sleep(t) \/ (Return /\ t = Master) PROVE WorkIsNoticed'
  <2>1. queue' = {}
    BY <1>6 DEF Sleep, Return, queueVars
  <2> QED
    BY <2>1 DEF WorkIsNoticed
<1>7. ASSUME NEW t \in Threads, InterruptedWait(t) PROVE WorkIsNoticed'
  <2>1. interrupt[t] = "pending" /\ Thrown(t)
    BY <1>7 DEF InterruptedWait
  <2>2. \A u \in Threads \ {t} : pc'[u] = pc[u] /\ interrupt'[u] = interrupt[u]
    BY <2>1 DEF Thrown
  <2>3. CASE t = Master
    <3>1. pc'[Master] = "lock"
      BY <1>1, <2>1, <2>3 DEF Thrown
    <3> QED
      BY <1>1, <3>1, NoticedBy
  <2>4. CASE t \in Workers
    <3>1. pc'[t] = "done"
      BY <1>1, <2>1, <2>4 DEF Thrown
    <3>2. CASE \A w \in Workers : pc'[w] = "done"
      BY <3>2 DEF WorkIsNoticed
    <3>3. ASSUME NEW w \in Workers, pc'[w] # "done" PROVE WorkIsNoticed'
      <4>1. w # t /\ pc'[w] = pc[w] /\ interrupt'[w] = interrupt[w]
        BY <1>1, <2>2, <3>1, <3>3
      <4>2. interrupt[w] = "pending"
        BY <2>1, <3>3, <4>1 DEF Interrupted
      <4>3. pc[w] \in {"lock", "loop", "woken", "run", "waiting"}
        BY <1>1, <3>3, <4>1 DEF Roles
      <4> QED
        BY <1>1, <4>1, <4>2, <4>3 DEF WorkIsNoticed
    <3> QED
      BY <3>2, <3>3
  <2> QED
    BY <2>3, <2>4 DEF Threads
<1>8. CASE InterruptAll
  <2>1. pc' = pc /\ queue' = queue
    BY <1>8 DEF InterruptAll, queueVars
  <2>2. \A t \in Threads : interrupt[t] = "no"
    BY <1>8 DEF InterruptAll
  <2> QED
    BY <2>1, <2>2 DEF WorkIsNoticed
<1>9. CASE UNCHANGED vars
  BY <1>9 DEF vars, queueVars, WorkIsNoticed
<1> QED
  BY <1>1, <1>2, <1>3, <1>4, <1>5, <1>6, <1>7, <1>8, <1>9 DEF Next, ThreadStep

(* Checks in the queue never wait while all the workers sleep: a wake-up is  *)
(* on its way to one, whatever was interrupted and whoever was woken for     *)
(* other checks, unless every worker has ended.                              *)
THEOREM WorkAlwaysNoticed == Spec => []WorkIsNoticed
<1>1. IInv /\ Interrupted /\ WorkIsNoticed /\ [Next]_vars => (Interrupted /\ WorkIsNoticed)'
  BY InterruptedKept, NoticedKept
<1> QED
  BY <1>1, NoticedInit, InvariantHolds, PTL DEF Spec

=============================================================================
