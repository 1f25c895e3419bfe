----------------------------- MODULE CheckQueue -----------------------------
(***************************************************************************)
(* The pool of script check threads (src/checkqueue.h): the master, which  *)
(* runs ConnectBlock under cs_main, pushes the checks of a block on a      *)
(* queue, joins the workers, and gets the verdict on the block.            *)
(*                                                                         *)
(* A critical section of Loop is two steps, entering it and leaving it,    *)
(* because the constructor of CCheckQueueControl reads the counters        *)
(* without the mutex.  The order of the queue is left out ("As the order   *)
(* of booleans doesn't matter"): a batch is any part of it.                *)
(***************************************************************************)
EXTENDS Integers, FiniteSets

CONSTANTS
    Checks,      \* the script checks a block can have
    Good,        \* those that succeed
    Workers,     \* the ThreadScriptCheck threads
    Master,      \* the thread that runs ConnectBlock
    NoThread,    \* nobody holds the mutex
    BatchSize,   \* nBatchSize
    MaxBlocks,   \* bound: the blocks connected
    MaxSpurious  \* bound: the condition variables' spurious wake-ups

Threads == Workers \cup {Master}

ASSUME QueueAssumption ==
    /\ IsFiniteSet(Checks) /\ Good \subseteq Checks /\ IsFiniteSet(Workers)
    /\ Master \notin Workers /\ NoThread \notin Threads
    /\ BatchSize \in Nat \ {0} /\ MaxBlocks \in Nat /\ MaxSpurious \in Nat

VARIABLES
    queue, nIdle, nTotal, fAllOk, nTodo,  \* as in CCheckQueue
    mutex,     \* the thread that holds it, or NoThread
    pc,        \* the control point of each thread
    vChecks,   \* the batch of each thread, until nTodo has been reduced by it
    fOk,       \* the result of that batch
    interrupt, \* boost's interruption of each thread: "no", "pending", "taken"
    added,     \* history: the checks added under the current control
    result,    \* what the last Wait returned
    blocks, spurious

queueVars == <<queue, fAllOk, nTodo>>
countVars == <<nIdle, nTotal>>
localVars == <<vChecks, fOk>>
blockVars == <<added, result, blocks>>
vars == <<queueVars, countVars, mutex, pc, localVars, interrupt, blockVars, spurious>>

Init ==
    /\ queue = {} /\ nIdle = 0 /\ nTotal = 0 /\ fAllOk = TRUE /\ nTodo = 0
    /\ mutex = NoThread
    /\ pc = [t \in Threads |-> IF t = Master THEN "idle" ELSE "lock"]
    /\ vChecks = [t \in Threads |-> {}] /\ fOk = [t \in Threads |-> TRUE]
    /\ interrupt = [t \in Threads |-> "no"]
    /\ added = {} /\ result = TRUE /\ blocks = 0 /\ spurious = 0

-----------------------------------------------------------------------------
(* The master's side of the control.                                       *)

(* The constructor's assertions: the queue is supposed to be unused.       *)
Unused == nTotal = nIdle /\ nTodo = 0 /\ fAllOk

Control ==
    /\ pc[Master] = "idle"
    /\ blocks < MaxBlocks
    /\ blocks' = blocks + 1
    /\ IF Unused
       THEN pc' = [pc EXCEPT ![Master] = "adding"] /\ added' = {}
       ELSE pc' = [pc EXCEPT ![Master] = "aborted"] /\ UNCHANGED added
    /\ UNCHANGED <<queueVars, countVars, mutex, localVars, interrupt, result, spurious>>

Waiting == {w \in Workers : pc[w] = "waiting"}

(* Mutant: a single check wakes nobody. *)
NotifiedOnlyByMany(batch) ==
    IF Cardinality(batch) > 1 THEN {Waiting} ELSE {{}}

(* The workers Add may notify: one of those that wait for one check, all   *)
(* of them for more.                                                       *)
Notified(batch) ==
    IF Waiting = {} \/ Cardinality(batch) > 1 THEN {Waiting}
                                              ELSE {{w} : w \in Waiting}

Add(batch) ==
    /\ pc[Master] = "adding" /\ mutex = NoThread
    /\ batch # {} /\ batch \cap added = {}
    /\ queue' = queue \cup batch
    /\ nTodo' = nTodo + Cardinality(batch)
    /\ added' = added \cup batch
    /\ \E woken \in Notified(batch) :
          pc' = [t \in Threads |-> IF t \in woken THEN "woken" ELSE pc[t]]
    /\ UNCHANGED <<fAllOk, countVars, mutex, localVars, interrupt, result, blocks,
                   spurious>>

(* control.Wait, or its destructor when ConnectBlock returns early.        *)
Wait ==
    /\ pc[Master] = "adding"
    /\ pc' = [pc EXCEPT ![Master] = "lock"]
    /\ UNCHANGED <<queueVars, countVars, mutex, localVars, interrupt, blockVars, spurious>>

-----------------------------------------------------------------------------
(* Loop.                                                                   *)

(* Mutant: a batch is taken for a full one. *)
BatchIsFull(t) == BatchSize

(* nNow. *)
BatchCount(t) == Cardinality(vChecks[t])

(* Mutant: the master is informed only by a worker whose checks succeeded. *)
InformsOnSuccess(t) == nTodo' = 0 /\ t # Master /\ fOk[t]

(* The worker that processed the last element informs the master. *)
Informs(t) == nTodo' = 0 /\ t # Master

(* Mutant: a batch that succeeded clears an earlier failure. *)
LastVerdict(t) == fOk[t]

Merged(t) == fAllOk /\ fOk[t]

(* The lock at the top of the loop, and the clean-up of the previous run.  *)
Enter(t) ==
    /\ pc[t] = "lock" /\ mutex = NoThread
    /\ mutex' = t
    /\ IF vChecks[t] # {}
       THEN /\ fAllOk' = Merged(t)
            /\ nTodo' = nTodo - BatchCount(t)
            /\ vChecks' = [vChecks EXCEPT ![t] = {}]
            /\ UNCHANGED nTotal
       ELSE /\ nTotal' = nTotal + 1
            /\ UNCHANGED <<fAllOk, nTodo, vChecks>>
    /\ pc' = [x \in Threads |->
                 IF x = t THEN "loop"
                 ELSE IF x = Master /\ pc[x] = "waiting" /\ vChecks[t] # {} /\ Informs(t)
                      THEN "woken"
                      ELSE pc[x]]
    /\ UNCHANGED <<queue, nIdle, fOk, interrupt, blockVars, spurious>>

(* Mutant: the flag is left for the next block. *)
KeepAllOk == fAllOk

(* fAllOk as the master leaves it "for new work later". *)
ResetAllOk == TRUE

(* fQuit is never set: only the master returns. *)
Return ==
    /\ mutex = Master /\ pc[Master] = "loop"
    /\ queue = {} /\ nTodo = 0
    /\ nTotal' = nTotal - 1
    /\ result' = fAllOk /\ fAllOk' = ResetAllOk
    /\ mutex' = NoThread
    /\ pc' = [pc EXCEPT ![Master] = "idle"]
    /\ UNCHANGED <<queue, nTodo, nIdle, localVars, interrupt, added, blocks, spurious>>

(* Mutant: a worker that catches its interruption goes on. *)
ThrownAndCaught(t) ==
    /\ interrupt' = [interrupt EXCEPT ![t] = "taken"]
    /\ pc' = [pc EXCEPT ![t] = "lock"]

(* boost throws thread_interrupted out of cond.wait: nIdle stays as it is,  *)
(* a worker ends, and the master's stack unwinds to the destructor of the  *)
(* control, which waits again.                                             *)
Thrown(t) ==
    /\ interrupt' = [interrupt EXCEPT ![t] = "taken"]
    /\ pc' = [pc EXCEPT ![t] = IF t = Master THEN "lock" ELSE "done"]

Sleep(t) ==
    /\ mutex = t /\ pc[t] = "loop"
    /\ queue = {}
    /\ t = Master => nTodo # 0
    /\ nIdle' = nIdle + 1
    /\ mutex' = NoThread
    /\ IF interrupt[t] = "pending"
       THEN Thrown(t)
       ELSE pc' = [pc EXCEPT ![t] = "waiting"] /\ UNCHANGED interrupt
    /\ UNCHANGED <<queueVars, nTotal, localVars, blockVars, spurious>>

(* cond.wait returns with the mutex. *)
Wake(t) ==
    /\ pc[t] = "woken" /\ mutex = NoThread
    /\ interrupt[t] # "pending"
    /\ mutex' = t
    /\ nIdle' = nIdle - 1
    /\ pc' = [pc EXCEPT ![t] = "loop"]
    /\ UNCHANGED <<queueVars, nTotal, localVars, interrupt, blockVars, spurious>>

InterruptedWait(t) ==
    /\ pc[t] \in {"waiting", "woken"} /\ mutex = NoThread
    /\ interrupt[t] = "pending"
    /\ Thrown(t)
    /\ UNCHANGED <<queueVars, countVars, mutex, localVars, blockVars, spurious>>

Min2(a, b) == IF a < b THEN a ELSE b
Max2(a, b) == IF a > b THEN a ELSE b

(* How many work units to process now. *)
nNow == Max2(1, Min2(BatchSize, Cardinality(queue) \div (nTotal + nIdle + 1)))

TakeBatch(t) ==
    /\ mutex = t /\ pc[t] = "loop"
    /\ queue # {}
    /\ \E batch \in SUBSET queue :
          /\ Cardinality(batch) = nNow
          /\ vChecks' = [vChecks EXCEPT ![t] = batch]
          /\ queue' = queue \ batch
    /\ fOk' = [fOk EXCEPT ![t] = fAllOk]
    /\ mutex' = NoThread
    /\ pc' = [pc EXCEPT ![t] = "run"]
    /\ UNCHANGED <<fAllOk, nTodo, countVars, interrupt, blockVars, spurious>>

(* Execute the work, unless a check has failed already. *)
Run(t) ==
    /\ pc[t] = "run"
    /\ fOk' = [fOk EXCEPT ![t] = @ /\ vChecks[t] \subseteq Good]
    /\ pc' = [pc EXCEPT ![t] = "lock"]
    /\ UNCHANGED <<queueVars, countVars, mutex, vChecks, interrupt, blockVars, spurious>>

-----------------------------------------------------------------------------
(* The outside world.                                                      *)

SpuriousWake(t) ==
    /\ pc[t] = "waiting" /\ spurious < MaxSpurious
    /\ spurious' = spurious + 1
    /\ pc' = [pc EXCEPT ![t] = "woken"]
    /\ UNCHANGED <<queueVars, countVars, mutex, localVars, interrupt, blockVars>>

(* threadGroup.interrupt_all() at shutdown.  A master outside a block can  *)
(* take its interruption at once; one that starts later is an RPC thread,  *)
(* which is not in the group.                                              *)
InterruptAll ==
    /\ \A t \in Threads : interrupt[t] = "no"
    /\ \E now \in {"pending"} \cup (IF pc[Master] = "idle" THEN {"taken"} ELSE {}) :
          interrupt' = [t \in Threads |-> IF t = Master THEN now ELSE "pending"]
    /\ UNCHANGED <<queueVars, countVars, mutex, pc, localVars, blockVars, spurious>>

(* What a thread does next by itself. *)
ThreadStep(t) ==
    \/ Enter(t) \/ Sleep(t) \/ Wake(t) \/ InterruptedWait(t) \/ TakeBatch(t) \/ Run(t)
    \/ t = Master /\ (Wait \/ Return)

Next ==
    /\ pc[Master] # "aborted"
    /\ \/ Control
       \/ \E batch \in SUBSET Checks : Add(batch)
       \/ \E t \in Threads : ThreadStep(t) \/ SpuriousWake(t)
       \/ InterruptAll

Spec == Init /\ [][Next]_vars

(* The operating system runs every thread, and ConnectBlock comes to the   *)
(* end of the block.                                                       *)
Fairness == \A t \in Threads : WF_vars(ThreadStep(t) /\ pc[Master] # "aborted")

FairSpec == Spec /\ Fairness

-----------------------------------------------------------------------------
TypeOK ==
    /\ queue \subseteq Checks /\ nIdle \in Nat /\ nTotal \in Nat
    /\ fAllOk \in BOOLEAN /\ nTodo \in Nat
    /\ mutex \in Threads \cup {NoThread}
    /\ pc \in [Threads -> {"idle", "adding", "aborted", "lock", "loop", "waiting",
                           "woken", "run", "done"}]
    /\ vChecks \in [Threads -> SUBSET Checks] /\ fOk \in [Threads -> BOOLEAN]
    /\ interrupt \in [Threads -> {"no", "pending", "taken"}]
    /\ added \subseteq Checks /\ result \in BOOLEAN
    /\ blocks \in 0 .. MaxBlocks /\ spurious \in 0 .. MaxSpurious

Verdict == INSTANCE CheckVerdict
    WITH open <- pc[Master] \notin {"idle", "aborted"}, verdict <- result

(* The master gets the conjunction of the checks it added for this block:  *)
(* no failure is lost between the workers, and none comes from, or is left *)
(* for, another block (checkqueue.h, Wait; ConnectBlock's control.Wait).   *)
VerdictIsConjunction == Verdict!Spec

(* Between two blocks nothing is left of the first: the conditions the     *)
(* constructor of the next control asserts, read under the mutex.          *)
UnusedBetweenBlocks ==
    pc[Master] = "idle" =>
        /\ queue = {} /\ nTodo = 0 /\ fAllOk
        /\ \A t \in Threads : vChecks[t] = {}
        /\ mutex = NoThread => nTotal = nIdle

(* checkqueue.h:170: the constructor's assertions hold. *)
AssertionsHold == pc[Master] # "aborted"

(* The checks do not lie in the queue while every live worker sleeps: Add  *)
(* wakes one when it must, also one whose wake-up another check spent.     *)
WorkIsNoticed ==
    queue # {} =>
        \/ \E t \in Threads :
              pc[t] \in {"lock", "loop", "woken", "run"} \/ (pc[t] = "waiting" /\ interrupt[t] = "pending")
        \/ \A w \in Workers : pc[w] = "done"

(* Wait returns, whatever the workers do and however they die. *)
WaitReturns == pc[Master] = "lock" ~> pc[Master] = "idle"

(* The shutdown's join_all ends: every worker takes its interruption.      *)
WorkersEnd ==
    (\A t \in Threads : interrupt[t] # "no")
        ~> (\A w \in Workers : pc[w] = "done") \/ pc[Master] = "aborted"

=============================================================================
