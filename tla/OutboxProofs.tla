---------------------------- MODULE OutboxProofs ----------------------------
(***************************************************************************)
(* Proofs about Outbox for every set of jobs and workers, every limit and  *)
(* every number of interruptions.                                          *)
(***************************************************************************)
EXTENDS Outbox, FiniteSetTheorems, TLAPS

(***************************************************************************)
(* Type correctness.  It needs the link between a worker's place in        *)
(* process_outbox_batch and the job it holds: the job's row exists.        *)
(***************************************************************************)
PlaceOK ==
    \A w \in Workers :
        /\ pc[w] \in {"claimed", "dispatching"} <=> cur[w] \in Jobs
        /\ cur[w] \in Jobs => status[cur[w]] # "Absent"

Shape == TypeOK /\ PlaceOK

LEMMA InitShape == Init => Shape
  BY ConstantsAssumption DEF Init, Shape, PlaceOK, TypeOK, RowStatus, Step

LEMMA NextShape == Shape /\ [Next]_vars => Shape'
<1> SUFFICES ASSUME Shape, [Next]_vars PROVE Shape'
  OBVIOUS
<1> USE ConstantsAssumption DEF Shape, PlaceOK, TypeOK, RowStatus, Step
<1>1. ASSUME NEW j \in Jobs, Enqueue(j) PROVE Shape'
  BY <1>1 DEF Enqueue, Insert, workerVars
<1>2. ASSUME NEW j \in Jobs, Tick(j) PROVE Shape'
  BY <1>2 DEF Tick, BackoffElapses, LeaseLapses, workerVars
<1>3. ASSUME NEW w \in Workers, BatchStart(w) PROVE Shape'
  BY <1>3 DEF BatchStart, rowVars
<1>4. ASSUME NEW w \in Workers, Claim(w) PROVE Shape'
  BY <1>4 DEF Claim, NextDue, Due
<1>5. ASSUME NEW w \in Workers, Load(w) PROVE Shape'
  BY <1>5 DEF Load, rowVars
<1>6. ASSUME NEW w \in Workers, Complete(w) PROVE Shape'
  BY <1>6 DEF Complete, NextJob
<1>7. ASSUME NEW w \in Workers, Fail(w) PROVE Shape'
  BY <1>7 DEF Fail, NextJob
<1>8. ASSUME NEW w \in Workers, BatchEnd(w) PROVE Shape'
  BY <1>8 DEF BatchEnd, Release, rowVars
<1>9. ASSUME NEW w \in Workers, Interrupt(w) PROVE Shape'
  BY <1>9 DEF Interrupt, Release, rowVars
<1>10. CASE UNCHANGED vars
  BY <1>10 DEF vars, rowVars, workerVars
<1>11. QED
  BY <1>1, <1>2, <1>3, <1>4, <1>5, <1>6, <1>7, <1>8, <1>9, <1>10 DEF Next, Run

LEMMA AlwaysShape == Spec => []Shape
  BY InitShape, NextShape, PTL DEF Spec

(* Every variable keeps its type in every behaviour of the outbox.         *)
THEOREM TypeCorrect == Spec => []TypeOK
<1>1. Shape => TypeOK
  BY DEF Shape
<1>2. QED
  BY <1>1, AlwaysShape, PTL

(***************************************************************************)
(* Mutual exclusion and single application, when the write lock is real or *)
(* a dispatch ends inside its lease.                                       *)
(***************************************************************************)
Exclusive == Serialized \/ ~SlowDispatch

(* Only the holder of the write lock is inside a batch.                    *)
LockOK == Serialized => \A w \in Workers : pc[w] # "idle" => lock = w

(* A held job is in progress, and without the lock its lease is fresh.     *)
LeaseOK ==
    \A w \in Workers : cur[w] \in Jobs =>
        /\ status[cur[w]] = "Processing"
        /\ ~Serialized => ~lapsed[cur[w]]

(* A second session loads the row as its worker's claim left it.           *)
SeenOK == \A w \in Workers : pc[w] = "dispatching" => seen[w] = "Processing"

(* A job in progress that nobody holds was left behind by an interruption. *)
AttemptsOK ==
    /\ AttemptsExplained
    /\ \A j \in Jobs :
        /\ status[j] = "Absent" => attempts[j] = 0
        /\ status[j] = "Processing" /\ ~Held(j) => attempts[j] < MaxAttempts + interrupts

IInv == LockOK /\ LeaseOK /\ SeenOK /\ SoleDispatcher /\ AppliedOnce /\ AttemptsOK

LEMMA InitIInv == Init => IInv
  BY ConstantsAssumption
  DEF Init, IInv, LockOK, LeaseOK, SeenOK, SoleDispatcher, AppliedOnce,
      AttemptsOK, AttemptsExplained

LEMMA NextIInv ==
  ASSUME Exclusive, Shape, IInv, [Next]_vars
  PROVE  IInv'
<1> USE ConstantsAssumption
    DEF Exclusive, Shape, PlaceOK, TypeOK, RowStatus, Step, IInv, LockOK, LeaseOK, SeenOK,
        SoleDispatcher, AppliedOnce, AttemptsOK, AttemptsExplained, Held
<1>1. ASSUME NEW j \in Jobs, Enqueue(j) PROVE IInv'
  <2>1. LockOK'
    BY <1>1 DEF Enqueue, Insert, workerVars
  <2>2. LeaseOK'
    BY <1>1 DEF Enqueue, Insert, workerVars
  <2>3. SeenOK'
    BY <1>1 DEF Enqueue, Insert, workerVars
  <2>4. SoleDispatcher'
    BY <1>1 DEF Enqueue, Insert, workerVars
  <2>5. AppliedOnce'
    BY <1>1 DEF Enqueue, Insert, workerVars
  <2>6. AttemptsOK'
    BY <1>1 DEF Enqueue, Insert, workerVars
  <2>7. QED
    BY <2>1, <2>2, <2>3, <2>4, <2>5, <2>6
<1>2. ASSUME NEW j \in Jobs, BackoffElapses(j) PROVE IInv'
  <2>1. LockOK'
    BY <1>2 DEF BackoffElapses, workerVars
  <2>2. LeaseOK'
    BY <1>2 DEF BackoffElapses, workerVars
  <2>3. SeenOK'
    BY <1>2 DEF BackoffElapses, workerVars
  <2>4. SoleDispatcher'
    BY <1>2 DEF BackoffElapses, workerVars
  <2>5. AppliedOnce'
    BY <1>2 DEF BackoffElapses, workerVars
  <2>6. AttemptsOK'
    BY <1>2 DEF BackoffElapses, workerVars
  <2>7. QED
    BY <2>1, <2>2, <2>3, <2>4, <2>5, <2>6
<1>3. ASSUME NEW j \in Jobs, LeaseLapses(j) PROVE IInv'
  <2>1. LockOK'
    BY <1>3 DEF LeaseLapses, workerVars
  <2>2. LeaseOK'
    BY <1>3 DEF LeaseLapses, workerVars
  <2>3. SeenOK'
    BY <1>3 DEF LeaseLapses, workerVars
  <2>4. SoleDispatcher'
    BY <1>3 DEF LeaseLapses, workerVars
  <2>5. AppliedOnce'
    BY <1>3 DEF LeaseLapses, workerVars
  <2>6. AttemptsOK'
    BY <1>3 DEF LeaseLapses, workerVars
  <2>7. QED
    BY <2>1, <2>2, <2>3, <2>4, <2>5, <2>6
<1>4. ASSUME NEW w \in Workers, BatchStart(w) PROVE IInv'
  <2>1. LockOK'
    BY <1>4 DEF BatchStart, rowVars
  <2>2. LeaseOK'
    BY <1>4 DEF BatchStart, rowVars
  <2>3. SeenOK'
    BY <1>4 DEF BatchStart, rowVars
  <2>4. SoleDispatcher'
    BY <1>4 DEF BatchStart, rowVars
  <2>5. AppliedOnce'
    BY <1>4 DEF BatchStart, rowVars
  <2>6. AttemptsOK'
    BY <1>4 DEF BatchStart, rowVars
  <2>7. QED
    BY <2>1, <2>2, <2>3, <2>4, <2>5, <2>6
<1>5. ASSUME NEW w \in Workers, Claim(w) PROVE IInv'
  <2>1. LockOK'
    BY <1>5 DEF Claim, NextDue, Due
  <2>2. LeaseOK'
    BY <1>5 DEF Claim, NextDue, Due
  <2>3. SeenOK'
    BY <1>5 DEF Claim, NextDue, Due
  <2>4. SoleDispatcher'
    BY <1>5 DEF Claim, NextDue, Due
  <2>5. AppliedOnce'
    BY <1>5 DEF Claim, NextDue, Due
  <2>6. AttemptsOK'
    BY <1>5 DEF Claim, NextDue, Due
  <2>7. QED
    BY <2>1, <2>2, <2>3, <2>4, <2>5, <2>6
<1>6. ASSUME NEW w \in Workers, Load(w) PROVE IInv'
  <2>1. LockOK'
    BY <1>6 DEF Load, rowVars
  <2>2. LeaseOK'
    BY <1>6 DEF Load, rowVars
  <2>3. SeenOK'
    BY <1>6 DEF Load, rowVars
  <2>4. SoleDispatcher'
    BY <1>6 DEF Load, rowVars
  <2>5. AppliedOnce'
    BY <1>6 DEF Load, rowVars
  <2>6. AttemptsOK'
    BY <1>6 DEF Load, rowVars
  <2>7. QED
    BY <2>1, <2>2, <2>3, <2>4, <2>5, <2>6
<1>7. ASSUME NEW w \in Workers, Complete(w) PROVE IInv'
  <2>1. LockOK'
    BY <1>7 DEF Complete, NextJob
  <2>2. LeaseOK'
    BY <1>7 DEF Complete, NextJob
  <2>3. SeenOK'
    BY <1>7 DEF Complete, NextJob
  <2>4. SoleDispatcher'
    BY <1>7 DEF Complete, NextJob
  <2>5. AppliedOnce'
    BY <1>7 DEF Complete, NextJob
  <2>6. AttemptsOK'
    BY <1>7 DEF Complete, NextJob
  <2>7. QED
    BY <2>1, <2>2, <2>3, <2>4, <2>5, <2>6
<1>8. ASSUME NEW w \in Workers, Fail(w) PROVE IInv'
  <2>1. LockOK'
    BY <1>8 DEF Fail, NextJob
  <2>2. LeaseOK'
    BY <1>8 DEF Fail, NextJob
  <2>3. SeenOK'
    BY <1>8 DEF Fail, NextJob
  <2>4. SoleDispatcher'
    BY <1>8 DEF Fail, NextJob
  <2>5. AppliedOnce'
    BY <1>8 DEF Fail, NextJob
  <2>6. AttemptsOK'
    BY <1>8 DEF Fail, NextJob
  <2>7. QED
    BY <2>1, <2>2, <2>3, <2>4, <2>5, <2>6
<1>9. ASSUME NEW w \in Workers, BatchEnd(w) PROVE IInv'
  <2>1. LockOK'
    BY <1>9 DEF BatchEnd, Release, rowVars
  <2>2. LeaseOK'
    BY <1>9 DEF BatchEnd, Release, rowVars
  <2>3. SeenOK'
    BY <1>9 DEF BatchEnd, Release, rowVars
  <2>4. SoleDispatcher'
    BY <1>9 DEF BatchEnd, Release, rowVars
  <2>5. AppliedOnce'
    BY <1>9 DEF BatchEnd, Release, rowVars
  <2>6. AttemptsOK'
    BY <1>9 DEF BatchEnd, Release, rowVars
  <2>7. QED
    BY <2>1, <2>2, <2>3, <2>4, <2>5, <2>6
<1>10. ASSUME NEW w \in Workers, Interrupt(w) PROVE IInv'
  <2>1. LockOK'
    BY <1>10 DEF Interrupt, Release, rowVars
  <2>2. LeaseOK'
    BY <1>10 DEF Interrupt, Release, rowVars
  <2>3. SeenOK'
    BY <1>10 DEF Interrupt, Release, rowVars
  <2>4. SoleDispatcher'
    BY <1>10 DEF Interrupt, Release, rowVars
  <2>5. AppliedOnce'
    BY <1>10 DEF Interrupt, Release, rowVars
  <2>6. AttemptsOK'
    BY <1>10 DEF Interrupt, Release, rowVars
  <2>7. QED
    BY <2>1, <2>2, <2>3, <2>4, <2>5, <2>6
<1>11. CASE UNCHANGED vars
  BY <1>11 DEF vars, rowVars, workerVars
<1>12. QED
  BY <1>1, <1>2, <1>3, <1>4, <1>5, <1>6, <1>7, <1>8, <1>9, <1>10, <1>11 DEF Next, Tick, Run

LEMMA AlwaysIInv == ASSUME Exclusive PROVE Spec => [](Shape /\ IInv)
<1>1. Init => Shape /\ IInv
  BY InitShape, InitIInv
<1>2. Shape /\ IInv /\ [Next]_vars => (Shape /\ IInv)'
  BY NextShape, NextIInv
<1>3. QED
  BY <1>1, <1>2, PTL DEF Spec

(* No two workers run one job at the same time.                            *)
THEOREM MutualExclusion == ASSUME Exclusive PROVE Spec => []SoleDispatcher
<1>1. IInv => SoleDispatcher
  BY DEF IInv
<1>2. QED
  BY <1>1, AlwaysIInv, PTL

(* The effects of a job commit exactly once if it is Completed, and never  *)
(* otherwise, whatever the number of workers, retries and interruptions.   *)
THEOREM ExactlyOnce == ASSUME Exclusive PROVE Spec => []AppliedOnce
<1>1. IInv => AppliedOnce
  BY DEF IInv
<1>2. QED
  BY <1>1, AlwaysIInv, PTL

(* Attempts beyond max_attempts are paid for by interruptions, and a job   *)
(* is given up only after max_attempts of them.                            *)
THEOREM AttemptAccounting == ASSUME Exclusive PROVE Spec => []AttemptsExplained
<1>1. IInv => AttemptsExplained
  BY DEF IInv, AttemptsOK
<1>2. QED
  BY <1>1, AlwaysIInv, PTL

(* A settled job is never touched again.                                   *)
SettledStays ==
    \A j \in Jobs : status[j] \in Terminal =>
        /\ status'[j] = status[j]
        /\ attempts'[j] = attempts[j]
        /\ committed'[j] = committed[j]

LEMMA NextSettledStays ==
  ASSUME Shape, IInv, [Next]_vars
  PROVE  SettledStays
<1> USE ConstantsAssumption
    DEF Shape, PlaceOK, TypeOK, RowStatus, Step, IInv, LeaseOK, Terminal, SettledStays
<1>1. ASSUME NEW j \in Jobs, Enqueue(j) PROVE SettledStays
  BY <1>1 DEF Enqueue, Insert, workerVars
<1>2. ASSUME NEW j \in Jobs, Tick(j) PROVE SettledStays
  BY <1>2 DEF Tick, BackoffElapses, LeaseLapses, workerVars
<1>3. ASSUME NEW w \in Workers, BatchStart(w) \/ Load(w) \/ BatchEnd(w) \/ Interrupt(w)
      PROVE  SettledStays
  BY <1>3 DEF BatchStart, Load, BatchEnd, Interrupt, rowVars
<1>4. ASSUME NEW w \in Workers, Claim(w) PROVE SettledStays
  BY <1>4 DEF Claim, NextDue, Due
<1>5. ASSUME NEW w \in Workers, Complete(w) PROVE SettledStays
  BY <1>5 DEF Complete
<1>6. ASSUME NEW w \in Workers, Fail(w) PROVE SettledStays
  BY <1>6 DEF Fail
<1>7. CASE UNCHANGED vars
  BY <1>7 DEF vars, rowVars
<1>8. QED
  BY <1>1, <1>2, <1>3, <1>4, <1>5, <1>6, <1>7 DEF Next, Run

THEOREM SettledForGood == ASSUME Exclusive PROVE Spec => TerminalIsFinal
<1>1. Shape /\ IInv /\ [Next]_vars => [SettledStays]_vars
  BY NextSettledStays
<1>2. QED
  BY <1>1, AlwaysIInv, PTL DEF Spec, TerminalIsFinal, SettledStays

(***************************************************************************)
(* Jobs enqueued by a dispatch.  No condition on leases is needed.         *)
(***************************************************************************)
LEMMA SpawnedAreJobs == Spawned \subseteq Jobs
  BY ConstantsAssumption DEF Spawned

LEMMA NextSpawned ==
  ASSUME Shape, SpawnedByCommit, [Next]_vars
  PROVE  SpawnedByCommit'
<1> USE ConstantsAssumption, SpawnedAreJobs
    DEF Shape, PlaceOK, TypeOK, RowStatus, Step, SpawnedByCommit
<1>1. ASSUME NEW j \in Jobs, Enqueue(j) PROVE SpawnedByCommit'
  BY <1>1 DEF Enqueue, Insert, workerVars
<1>2. ASSUME NEW j \in Jobs, Tick(j) PROVE SpawnedByCommit'
  BY <1>2 DEF Tick, BackoffElapses, LeaseLapses, workerVars
<1>3. ASSUME NEW w \in Workers, BatchStart(w) \/ Load(w) \/ BatchEnd(w) \/ Interrupt(w)
      PROVE  SpawnedByCommit'
  BY <1>3 DEF BatchStart, Load, BatchEnd, Interrupt, rowVars
<1>4. ASSUME NEW w \in Workers, Claim(w) PROVE SpawnedByCommit'
  BY <1>4 DEF Claim, NextDue, Due
<1>5. ASSUME NEW w \in Workers, Complete(w) PROVE SpawnedByCommit'
  <2> SUFFICES ASSUME NEW k \in Spawned, status'[k] # "Absent"
               PROVE  \E j \in Jobs : k \in Spawns[j] /\ committed'[j] >= 1
    OBVIOUS
  <2>1. \A j \in Jobs : committed'[j] \in Nat /\ committed'[j] >= committed[j]
    BY <1>5 DEF Complete
  <2>2. CASE status[k] # "Absent"
    BY <2>1, <2>2
  <2>3. CASE status[k] = "Absent"
    BY <1>5, <2>3 DEF Complete
  <2>4. QED
    BY <2>2, <2>3
<1>6. ASSUME NEW w \in Workers, Fail(w) PROVE SpawnedByCommit'
  BY <1>6 DEF Fail
<1>7. CASE UNCHANGED vars
  BY <1>7 DEF vars, rowVars
<1>8. QED
  BY <1>1, <1>2, <1>3, <1>4, <1>5, <1>6, <1>7 DEF Next, Run

(* A job that only a dispatch enqueues exists only if one committed.       *)
THEOREM SpawnedOnlyByCommit == Spec => []SpawnedByCommit
<1>1. Init => SpawnedByCommit
  BY SpawnedAreJobs DEF Init, SpawnedByCommit
<1>2. Shape /\ SpawnedByCommit /\ [Next]_vars => SpawnedByCommit'
  BY NextSpawned
<1>3. QED
  BY <1>1, <1>2, AlwaysShape, PTL DEF Spec

(***************************************************************************)
(* Refinement of the abstract queue (its safety part).                     *)
(***************************************************************************)
LEMMA InitRefines == Init => Queue!Init
  BY DEF Init, Queue!Init, LedgerOf

LEMMA NextRefines ==
  ASSUME Shape, IInv, [Next]_vars
  PROVE  [Queue!Next]_(Queue!vars)
<1> USE ConstantsAssumption
    DEF Shape, PlaceOK, TypeOK, RowStatus, Step, IInv, LeaseOK, LedgerOf
<1>1. ASSUME NEW j \in Jobs, Enqueue(j) PROVE Queue!Accept(j)
  BY <1>1 DEF Enqueue, Insert, workerVars, Queue!Accept
<1>2. ASSUME NEW j \in Jobs, Tick(j) PROVE UNCHANGED Queue!vars
  BY <1>2 DEF Tick, BackoffElapses, LeaseLapses, workerVars, Queue!vars
<1>3. ASSUME NEW w \in Workers, BatchStart(w) \/ Load(w) \/ BatchEnd(w) \/ Interrupt(w)
      PROVE  UNCHANGED Queue!vars
  BY <1>3 DEF BatchStart, Load, BatchEnd, Interrupt, rowVars, Queue!vars
<1>4. ASSUME NEW w \in Workers, Claim(w) PROVE \E j \in Jobs : Queue!Try(j)
  <2>1. PICK j \in Jobs :
          /\ NextDue(j)
          /\ status'   = [status EXCEPT ![j] = "Processing"]
          /\ attempts' = [attempts EXCEPT ![j] = @ + 1]
    BY <1>4 DEF Claim
  <2>2. status[j] \in {"Pending", "Processing"}
    BY <2>1 DEF NextDue, Due
  <2>3. \A k \in Jobs : LedgerOf(status'[k]) = LedgerOf(status[k])
    BY <2>1, <2>2
  <2>4. committed' = committed
    BY <1>4 DEF Claim
  <2>5. QED
    BY <2>1, <2>2, <2>3, <2>4 DEF Queue!Try
<1>5. ASSUME NEW w \in Workers, Complete(w) PROVE cur[w] \in Jobs /\ Queue!Settle(cur[w])
  <2> DEFINE j == cur[w]
             L(k) == LedgerOf(status[k])
  <2>1. j \in Jobs /\ status[j] = "Processing" /\ seen[w] = "Processing"
    BY <1>5 DEF Complete, SeenOK
  <2>2. PICK S \in SUBSET {k \in Spawns[j] : status[k] = "Absent"} :
          status' = [k \in Jobs |-> IF k \in S THEN "Pending"
                                   ELSE IF k = j /\ seen[w] # "Completed"
                                   THEN "Completed" ELSE status[k]]
    BY <1>5 DEF Complete
  <2>3. S \in SUBSET {k \in Spawns[j] : [i \in Jobs |-> L(i)][k] = "none"}
    BY <2>1, <2>2
  <2>4. [k \in Jobs |-> L(k)]' =
          [k \in Jobs |-> IF k = j THEN "done"
                         ELSE IF k \in S THEN "owed" ELSE [i \in Jobs |-> L(i)][k]]
    BY <2>1, <2>2
  <2>5. committed' = [committed EXCEPT ![j] = @ + 1] /\ UNCHANGED attempts
    BY <1>5 DEF Complete
  <2>6. [k \in Jobs |-> L(k)][j] = "owed"
    BY <2>1
  <2> HIDE DEF j, LedgerOf
  <2>7. QED
    BY <2>1, <2>3, <2>4, <2>5, <2>6, Zenon DEF Queue!Settle, j
<1>6. ASSUME NEW w \in Workers, Fail(w)
      PROVE  cur[w] \in Jobs /\ (Queue!GiveUp(cur[w]) \/ UNCHANGED Queue!vars)
  BY <1>6 DEF Fail, Queue!GiveUp, Queue!vars
<1>7. CASE UNCHANGED vars
  BY <1>7 DEF vars, rowVars, Queue!vars
<1> HIDE DEF Shape, PlaceOK, TypeOK, RowStatus, Step, IInv, LeaseOK, LedgerOf
<1>8. CASE \E w \in Workers : Run(w)
  BY <1>3, <1>4, <1>5, <1>6, <1>8 DEF Run, Queue!Next
<1>9. QED
  BY <1>1, <1>2, <1>3, <1>7, <1>8 DEF Next, Queue!Next

(* Every behaviour of the outbox is a behaviour of the abstract queue.     *)
THEOREM Refinement == ASSUME Exclusive PROVE Spec => Queue!Safety
<1>1. Shape /\ IInv /\ [Next]_vars => [Queue!Next]_(Queue!vars)
  BY NextRefines
<1>2. QED
  BY <1>1, InitRefines, AlwaysIInv, PTL DEF Spec, Queue!Safety

(***************************************************************************)
(* What remains when a dispatch outlives its lease.                        *)
(***************************************************************************)
LEMMA NextAtLeastOnce ==
  ASSUME Shape, AtLeastOnce, [Next]_vars
  PROVE  AtLeastOnce'
<1> USE ConstantsAssumption DEF Shape, PlaceOK, TypeOK, RowStatus, Step, AtLeastOnce
<1>1. ASSUME NEW j \in Jobs, Enqueue(j) PROVE AtLeastOnce'
  BY <1>1 DEF Enqueue, Insert, workerVars
<1>2. ASSUME NEW j \in Jobs, Tick(j) PROVE AtLeastOnce'
  BY <1>2 DEF Tick, BackoffElapses, LeaseLapses, workerVars
<1>3. ASSUME NEW w \in Workers, BatchStart(w) \/ Load(w) \/ BatchEnd(w) \/ Interrupt(w)
      PROVE  AtLeastOnce'
  BY <1>3 DEF BatchStart, Load, BatchEnd, Interrupt, rowVars
<1>4. ASSUME NEW w \in Workers, Claim(w) PROVE AtLeastOnce'
  BY <1>4 DEF Claim
<1>5. ASSUME NEW w \in Workers, Complete(w) PROVE AtLeastOnce'
  <2>1. cur[w] \in Jobs /\ committed' = [committed EXCEPT ![cur[w]] = @ + 1]
    BY <1>5 DEF Complete
  <2>2. \A k \in Jobs : status'[k] = "Completed" => k = cur[w] \/ status[k] = "Completed"
    BY <1>5 DEF Complete
  <2>3. QED
    BY <2>1, <2>2
<1>6. ASSUME NEW w \in Workers, Fail(w) PROVE AtLeastOnce'
  BY <1>6 DEF Fail
<1>7. CASE UNCHANGED vars
  BY <1>7 DEF vars, rowVars
<1>8. QED
  BY <1>1, <1>2, <1>3, <1>4, <1>5, <1>6, <1>7 DEF Next, Run

(* Whatever leases lapse, and without the lock: a row says Completed only  *)
(* if the transaction with the effects of its job has committed.           *)
THEOREM CommittedAtLeastOnce == Spec => []AtLeastOnce
<1>1. Init => AtLeastOnce
  BY DEF Init, AtLeastOnce
<1>2. Shape /\ AtLeastOnce /\ [Next]_vars => AtLeastOnce'
  BY NextAtLeastOnce
<1>3. QED
  BY <1>1, <1>2, AlwaysShape, PTL DEF Spec

-----------------------------------------------------------------------------
LEMMA OneMore ==
  ASSUME NEW S, IsFiniteSet(S), NEW w, w \notin S
  PROVE  IsFiniteSet(S \cup {w}) /\ Cardinality(S \cup {w}) = Cardinality(S) + 1
  BY FS_AddElement

LEMMA OneLess ==
  ASSUME NEW S, IsFiniteSet(S), NEW w
  PROVE  /\ IsFiniteSet(S \ {w}) /\ Cardinality(S) \in Nat /\ Cardinality(S \ {w}) \in Nat
         /\ Cardinality(S) <= Cardinality(S \ {w}) + 1
         /\ w \in S => Cardinality(S) = Cardinality(S \ {w}) + 1
  BY FS_RemoveElement, FS_CardinalityType

(* Every worker that holds a job has claimed it in an attempt that has not *)
(* committed.                                                              *)
Holders(j) == {w \in Workers : cur[w] = j}

Accounted(j) ==
  \A S \in SUBSET Holders(j) : IsFiniteSet(S) => committed[j] + Cardinality(S) <= attempts[j]

LEMMA AccountedKept ==
  ASSUME NEW j, Accounted(j), committed'[j] = committed[j], attempts'[j] = attempts[j],
         Holders(j)' \subseteq Holders(j)
  PROVE  Accounted(j)'
  BY DEF Accounted

LEMMA CommitAccounted ==
  ASSUME Shape, NEW w \in Workers, Complete(w), NEW j \in Jobs, Accounted(j)
  PROVE  Accounted(j)'
<1> USE DEF Shape, TypeOK, PlaceOK
<1>0. /\ cur[w] \in Jobs /\ attempts' = attempts /\ cur' = [cur EXCEPT ![w] = None]
      /\ committed' = [committed EXCEPT ![cur[w]] = @ + 1]
  BY DEF Complete, NextJob
<1>1. Holders(j)' \subseteq Holders(j) \ {w}
  BY <1>0, ConstantsAssumption DEF Holders, ConstantsAssumption
<1>2. CASE cur[w] # j
  <2>1. committed'[j] = committed[j]
    BY <1>0, <1>2
  <2> QED BY <1>0, <1>1, <2>1, AccountedKept
<1>3. CASE cur[w] = j
  <2> SUFFICES ASSUME NEW S \in SUBSET Holders(j)', IsFiniteSet(S)
               PROVE  committed'[j] + Cardinality(S) <= attempts'[j]
    BY DEF Accounted
  <2>1. w \notin S /\ S \cup {w} \in SUBSET Holders(j)
    BY <1>1, <1>3 DEF Holders
  <2>2. IsFiniteSet(S \cup {w}) /\ Cardinality(S \cup {w}) = Cardinality(S) + 1
    BY <2>1, OneMore
  <2>3. committed[j] + Cardinality(S \cup {w}) <= attempts[j]
    BY <2>1, <2>2 DEF Accounted
  <2>4. /\ Cardinality(S) \in Nat /\ committed[j] \in Nat /\ attempts[j] \in Nat
        /\ committed'[j] = committed[j] + 1 /\ attempts'[j] = attempts[j]
    BY <1>0, <1>3, FS_CardinalityType
  <2> QED BY <2>2, <2>3, <2>4
<1> QED BY <1>2, <1>3

LEMMA ClaimAccounted ==
  ASSUME Shape, NEW w \in Workers, Claim(w), NEW j \in Jobs, Accounted(j)
  PROVE  Accounted(j)'
<1> USE DEF Shape, TypeOK, PlaceOK
<1>0. PICK k \in Jobs :
        /\ attempts' = [attempts EXCEPT ![k] = @ + 1]
        /\ cur' = [cur EXCEPT ![w] = k] /\ committed' = committed
        /\ cur[w] \notin Jobs
  BY DEF Claim
<1>1. CASE k # j
  <2>1. Holders(j)' \subseteq Holders(j) /\ attempts'[j] = attempts[j]
    BY <1>0, <1>1 DEF Holders
  <2> QED BY <1>0, <2>1, AccountedKept
<1>2. CASE k = j
  <2> SUFFICES ASSUME NEW S \in SUBSET Holders(j)', IsFiniteSet(S)
               PROVE  committed'[j] + Cardinality(S) <= attempts'[j]
    BY DEF Accounted
  <2>1. S \ {w} \in SUBSET Holders(j)
    BY <1>0 DEF Holders
  <2>2. committed[j] + Cardinality(S \ {w}) <= attempts[j]
    BY <2>1, OneLess DEF Accounted
  <2>3. /\ Cardinality(S) \in Nat /\ Cardinality(S \ {w}) \in Nat
        /\ Cardinality(S) <= Cardinality(S \ {w}) + 1
    BY OneLess
  <2>4. /\ committed[j] \in Nat /\ attempts[j] \in Nat
        /\ committed'[j] = committed[j] /\ attempts'[j] = attempts[j] + 1
    BY <1>0, <1>2
  <2> QED BY <2>2, <2>3, <2>4
<1> QED BY <1>1, <1>2

LEMMA NextAccounted ==
  ASSUME Shape, \A j \in Jobs : Accounted(j), [Next]_vars, NEW j \in Jobs
  PROVE  Accounted(j)'
<1>1. ASSUME NEW w \in Workers, Complete(w) PROVE Accounted(j)'
  BY <1>1, CommitAccounted
<1>2. ASSUME NEW w \in Workers, Claim(w) PROVE Accounted(j)'
  BY <1>2, ClaimAccounted
<1>3. ASSUME NEW k \in Jobs, Enqueue(k) \/ Tick(k) PROVE Accounted(j)'
  <2>1. UNCHANGED <<attempts, committed, cur>>
    BY <1>3, Zenon DEF Enqueue, Tick, BackoffElapses, LeaseLapses, workerVars
  <2> QED BY <2>1, AccountedKept DEF Holders
<1>4. ASSUME NEW w \in Workers, BatchStart(w) \/ Load(w) \/ BatchEnd(w) PROVE Accounted(j)'
  <2>1. UNCHANGED <<attempts, committed, cur>>
    BY <1>4, Zenon DEF BatchStart, Load, BatchEnd, rowVars
  <2> QED BY <2>1, AccountedKept DEF Holders
<1>5. ASSUME NEW w \in Workers, Fail(w) \/ Interrupt(w) PROVE Accounted(j)'
  <2>1. UNCHANGED <<attempts, committed>> /\ cur' = [cur EXCEPT ![w] = None]
    BY <1>5, Zenon DEF Fail, NextJob, Interrupt, rowVars
  <2>2. Holders(j)' \subseteq Holders(j)
    BY <2>1, ConstantsAssumption DEF Holders, ConstantsAssumption, Shape, TypeOK
  <2> QED BY <2>1, <2>2, AccountedKept
<1>6. CASE UNCHANGED vars
  BY <1>6, AccountedKept DEF vars, rowVars, workerVars, Holders
<1> QED BY <1>1, <1>2, <1>3, <1>4, <1>5, <1>6 DEF Next, Run

(* Without the lock and with dispatches that outlive their lease, the      *)
(* effects of a job may be committed more than once, but never more often  *)
(* than the job was claimed, and not yet for the claims still in progress. *)
CommitsAccounted == \A j \in Jobs : committed[j] <= attempts[j]

THEOREM OneCommitPerAttempt == Spec => []CommitsAccounted
<1> DEFINE AllAccounted == \A j \in Jobs : Accounted(j)
<1>1. Init => AllAccounted
  <2> SUFFICES ASSUME Init, NEW j \in Jobs PROVE Accounted(j)
    OBVIOUS
  <2>1. Holders(j) = {}
    BY ConstantsAssumption DEF Init, Holders, ConstantsAssumption
  <2>2. \A S \in SUBSET Holders(j) : Cardinality(S) = 0
    BY <2>1, FS_EmptySet
  <2>3. committed[j] = 0 /\ attempts[j] = 0
    BY DEF Init
  <2> QED BY <2>2, <2>3 DEF Accounted
<1>2. Shape /\ AllAccounted /\ [Next]_vars => AllAccounted'
  BY NextAccounted
<1>3. ASSUME Shape, AllAccounted PROVE CommitsAccounted
  <2> SUFFICES ASSUME NEW j \in Jobs PROVE committed[j] <= attempts[j]
    BY DEF CommitsAccounted
  <2>1. committed[j] + Cardinality({}) <= attempts[j]
    BY <1>3, FS_EmptySet DEF Accounted
  <2>2. committed[j] \in Nat
    BY <1>3 DEF Shape, TypeOK
  <2> QED BY <2>1, <2>2, FS_EmptySet
<1> HIDE DEF AllAccounted
<1> QED BY <1>1, <1>2, <1>3, AlwaysShape, PTL DEF Spec
=============================================================================
