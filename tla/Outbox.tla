------------------------------- MODULE Outbox -------------------------------
(***************************************************************************)
(* The durable outbox (src/app/services/outbox.py) and the workers that    *)
(* drain it (src/app/services/runtime_tasks.py, the start-up batch of      *)
(* src/app/main.py).                                                       *)
(*                                                                         *)
(* A job row is identified by its dedupe key, which the database keeps     *)
(* unique.  A worker claims a job in one transaction, runs it in a second  *)
(* one that also marks it Completed, and on an exception rolls the second  *)
(* one back and records the failure in a third.  Anything may interrupt a  *)
(* worker between two of these transactions.                               *)
(*                                                                         *)
(* The clock is abstracted to the two comparisons the code makes with it:  *)
(* due[j] is "available_at <= now", lapsed[j] is "locked_at < now - 120s". *)
(***************************************************************************)
EXTENDS Integers, FiniteSets

CONSTANTS
    Jobs,           \* dedupe keys
    Workers,        \* threads or processes that call process_outbox_batch
    None,           \* no job, no worker
    Rank,           \* the priority column: the smaller value goes first
    Spawns,         \* Spawns[j]: jobs the dispatch of j may enqueue
    MaxAttempts,    \* the max_attempts column
    BatchLimit,     \* the limit argument of process_outbox_batch
    Serialized,     \* TRUE on SQLite: database_write_lock() is a real lock
    SlowDispatch,   \* may a dispatch outlive its lease of 120 seconds?
    MaxInterrupts   \* bound on the interruptions of a behaviour

ASSUME ConstantsAssumption ==
    /\ None \notin Jobs /\ None \notin Workers
    /\ Rank \in [Jobs -> Nat]
    /\ Spawns \in [Jobs -> SUBSET Jobs]
    /\ MaxAttempts \in Nat \ {0}
    /\ BatchLimit \in Nat \ {0}
    /\ MaxInterrupts \in Nat
    /\ Serialized \in BOOLEAN /\ SlowDispatch \in BOOLEAN

VARIABLES
    status,      \* the row's status; "Absent" when there is no row
    attempts,    \* the row's attempts
    due,         \* available_at has been reached
    lapsed,      \* locked_at is set and older than STALE_JOB_SECONDS
    committed,   \* how many dispatch transactions of the job have committed
    lock,        \* holder of the write lock, or None
    pc,          \* where each worker is in process_outbox_batch
    cur,         \* the job a worker has claimed, or None
    seen,        \* the status the worker's second session loaded
    taken,       \* claims of a worker in its current batch
    interrupts   \* interruptions so far

rowVars    == <<status, attempts, due, lapsed, committed>>
workerVars == <<lock, pc, cur, seen, taken>>
vars       == <<rowVars, workerVars, interrupts>>

RowStatus == {"Pending", "Processing", "Completed", "Failed"}
Terminal  == {"Completed", "Failed"}
Step      == {"idle", "polling", "claimed", "dispatching"}

-----------------------------------------------------------------------------
Init ==
    /\ status     = [j \in Jobs |-> "Absent"]
    /\ attempts   = [j \in Jobs |-> 0]
    /\ due        = [j \in Jobs |-> FALSE]
    /\ lapsed     = [j \in Jobs |-> FALSE]
    /\ committed  = [j \in Jobs |-> 0]
    /\ lock       = None
    /\ pc         = [w \in Workers |-> "idle"]
    /\ cur        = [w \in Workers |-> None]
    /\ seen       = [w \in Workers |-> "Absent"]
    /\ taken      = [w \in Workers |-> 0]
    /\ interrupts = 0

(***************************************************************************)
(* Producers.  A handler enqueues inside its own transaction; an existing  *)
(* row with the key is returned unchanged, and the loser of a race on the  *)
(* unique key rolls back.                                                  *)
(***************************************************************************)
Insert(S) ==
    /\ status' = [j \in Jobs |-> IF j \in S THEN "Pending" ELSE status[j]]
    /\ due'    = [j \in Jobs |-> IF j \in S THEN TRUE ELSE due[j]]

Spawned == UNION {Spawns[j] : j \in Jobs}

Enqueue(j) ==
    /\ lock = None
    /\ j \notin Spawned
    /\ status[j] = "Absent"
    /\ Insert({j})
    /\ UNCHANGED <<attempts, lapsed, committed, workerVars, interrupts>>

(***************************************************************************)
(* The clock.                                                              *)
(***************************************************************************)
BackoffElapses(j) ==
    /\ status[j] = "Pending" /\ ~due[j]
    /\ due' = [due EXCEPT ![j] = TRUE]
    /\ UNCHANGED <<status, attempts, lapsed, committed, workerVars, interrupts>>

Held(j) == \E w \in Workers : cur[w] = j

LeaseLapses(j) ==
    /\ status[j] = "Processing" /\ ~lapsed[j]
    /\ SlowDispatch \/ ~Held(j)
    /\ lapsed' = [lapsed EXCEPT ![j] = TRUE]
    /\ UNCHANGED <<status, attempts, due, committed, workerVars, interrupts>>

(***************************************************************************)
(* process_outbox_batch.                                                   *)
(***************************************************************************)
Release(w) == lock' = IF lock = w THEN None ELSE lock

\* Variant: the batch does not take the write lock.
BatchStartUnlocked(w) ==
    /\ pc[w] = "idle"
    /\ pc' = [pc EXCEPT ![w] = "polling"]
    /\ UNCHANGED <<rowVars, lock, cur, seen, taken, interrupts>>

BatchStart(w) ==
    /\ pc[w] = "idle"
    /\ lock = None
    /\ lock' = IF Serialized THEN w ELSE None
    /\ pc' = [pc EXCEPT ![w] = "polling"]
    /\ UNCHANGED <<rowVars, cur, seen, taken, interrupts>>

\* Variant: a job left in Processing is never taken again.
DueIfPending(j) == status[j] = "Pending" /\ due[j]

\* Variant: a job in Processing is taken whatever the age of its lease.
DueWhateverLease(j) ==
    \/ status[j] = "Pending" /\ due[j]
    \/ status[j] = "Processing"

Due(j) ==
    \/ status[j] = "Pending" /\ due[j]
    \/ status[j] = "Processing" /\ lapsed[j]

NextDue(j) == Due(j) /\ \A k \in Jobs : Due(k) => Rank[j] <= Rank[k]

\* Variant: a reclaimed job keeps the locked_at of its previous holder.
ClaimKeepingLockedAt(w) ==
    /\ pc[w] = "polling" /\ taken[w] < BatchLimit
    /\ \E j \in Jobs :
        /\ NextDue(j)
        /\ status'   = [status EXCEPT ![j] = "Processing"]
        /\ attempts' = [attempts EXCEPT ![j] = @ + 1]
        /\ cur'      = [cur EXCEPT ![w] = j]
    /\ pc'    = [pc EXCEPT ![w] = "claimed"]
    /\ taken' = [taken EXCEPT ![w] = @ + 1]
    /\ UNCHANGED <<due, lapsed, committed, lock, seen, interrupts>>

Claim(w) ==
    /\ pc[w] = "polling" /\ taken[w] < BatchLimit
    /\ \E j \in Jobs :
        /\ NextDue(j)
        /\ status'   = [status EXCEPT ![j] = "Processing"]
        /\ lapsed'   = [lapsed EXCEPT ![j] = FALSE]
        /\ attempts' = [attempts EXCEPT ![j] = @ + 1]
        /\ cur'      = [cur EXCEPT ![w] = j]
    /\ pc'    = [pc EXCEPT ![w] = "claimed"]
    /\ taken' = [taken EXCEPT ![w] = @ + 1]
    /\ UNCHANGED <<due, committed, lock, seen, interrupts>>

\* Variant: the job is marked Completed before it is dispatched.
LoadCompleting(w) ==
    /\ pc[w] = "claimed"
    /\ pc'     = [pc EXCEPT ![w] = "dispatching"]
    /\ seen'   = [seen EXCEPT ![w] = status[cur[w]]]
    /\ status' = [status EXCEPT ![cur[w]] = "Completed"]
    /\ UNCHANGED <<attempts, due, lapsed, committed, lock, cur, taken, interrupts>>

Load(w) ==
    /\ pc[w] = "claimed"
    /\ pc'   = [pc EXCEPT ![w] = "dispatching"]
    /\ seen' = [seen EXCEPT ![w] = status[cur[w]]]
    /\ UNCHANGED <<rowVars, lock, cur, taken, interrupts>>

NextJob(w) ==
    /\ pc'   = [pc EXCEPT ![w] = "polling"]
    /\ cur'  = [cur EXCEPT ![w] = None]
    /\ seen' = [seen EXCEPT ![w] = "Absent"]

(* A dispatch that returns: its writes, the rows it enqueued and the      *)
(* Completed status commit together.  The session writes the status only   *)
(* if it differs from the one it loaded.                                   *)
Complete(w) ==
    /\ pc[w] = "dispatching"
    /\ LET j == cur[w] IN
        /\ \E S \in SUBSET {k \in Spawns[j] : status[k] = "Absent"} :
             /\ status' = [k \in Jobs |-> IF k \in S THEN "Pending"
                                          ELSE IF k = j /\ seen[w] # "Completed"
                                          THEN "Completed" ELSE status[k]]
             /\ due' = [k \in Jobs |-> k \in S \/ due[k]]
        /\ lapsed'    = [lapsed EXCEPT ![j] = @ /\ seen[w] = "Completed"]
        /\ committed' = [committed EXCEPT ![j] = @ + 1]
    /\ NextJob(w)
    /\ UNCHANGED <<attempts, lock, taken, interrupts>>

\* Variant: one attempt more than max_attempts.
FailOffByOne(w) ==
    /\ pc[w] = "dispatching"
    /\ LET j == cur[w] IN
        /\ status' = [status EXCEPT ![j] =
                        IF attempts[j] > MaxAttempts THEN "Failed" ELSE "Pending"]
        /\ due'    = [due EXCEPT ![j] = FALSE]
        /\ lapsed' = [lapsed EXCEPT ![j] = FALSE]
    /\ NextJob(w)
    /\ UNCHANGED <<attempts, committed, lock, taken, interrupts>>

(* A dispatch that raises: rolled back, then the row is read again and the *)
(* failure recorded.                                                       *)
Fail(w) ==
    /\ pc[w] = "dispatching"
    /\ LET j == cur[w] IN
        /\ status' = [status EXCEPT ![j] =
                        IF attempts[j] >= MaxAttempts THEN "Failed" ELSE "Pending"]
        /\ due'    = [due EXCEPT ![j] = IF attempts[j] >= MaxAttempts THEN @ ELSE FALSE]
        /\ lapsed' = [lapsed EXCEPT ![j] = FALSE]
    /\ NextJob(w)
    /\ UNCHANGED <<attempts, committed, lock, taken, interrupts>>

BatchEnd(w) ==
    /\ pc[w] = "polling"
    /\ taken[w] = BatchLimit \/ \A j \in Jobs : ~Due(j)
    /\ pc'    = [pc EXCEPT ![w] = "idle"]
    /\ taken' = [taken EXCEPT ![w] = 0]
    /\ Release(w)
    /\ UNCHANGED <<rowVars, cur, seen, interrupts>>

(* The process dies, or an exception leaves process_outbox_batch: open    *)
(* transactions are rolled back and the lock is gone, the rows stay.       *)
Interrupt(w) ==
    /\ pc[w] # "idle"
    /\ interrupts < MaxInterrupts
    /\ interrupts' = interrupts + 1
    /\ pc'    = [pc EXCEPT ![w] = "idle"]
    /\ cur'   = [cur EXCEPT ![w] = None]
    /\ seen'  = [seen EXCEPT ![w] = "Absent"]
    /\ taken' = [taken EXCEPT ![w] = 0]
    /\ Release(w)
    /\ UNCHANGED rowVars

Run(w) ==
    \/ BatchStart(w)
    \/ Claim(w)
    \/ Load(w)
    \/ Complete(w)
    \/ Fail(w)
    \/ BatchEnd(w)

Tick(j) == BackoffElapses(j) \/ LeaseLapses(j)

Next ==
    \/ \E j \in Jobs : Enqueue(j)
    \/ \E j \in Jobs : Tick(j)
    \/ \E w \in Workers : Run(w)
    \/ \E w \in Workers : Interrupt(w)

(* The poll loop of runtime_tasks.py never stops calling _run_once, a      *)
(* dispatch returns or raises, and time passes.  Producers and             *)
(* interruptions are not fair.                                             *)
Fairness ==
    /\ \A w \in Workers : WF_vars(Run(w))
    /\ \A j \in Jobs : WF_vars(Tick(j))

Spec == Init /\ [][Next]_vars /\ Fairness

-----------------------------------------------------------------------------
TypeOK ==
    /\ status \in [Jobs -> RowStatus \cup {"Absent"}]
    /\ attempts \in [Jobs -> Nat]
    /\ due \in [Jobs -> BOOLEAN]
    /\ lapsed \in [Jobs -> BOOLEAN]
    /\ committed \in [Jobs -> Nat]
    /\ lock \in Workers \cup {None}
    /\ pc \in [Workers -> Step]
    /\ cur \in [Workers -> Jobs \cup {None}]
    /\ seen \in [Workers -> RowStatus \cup {"Absent"}]
    /\ taken \in [Workers -> 0..BatchLimit]
    /\ interrupts \in 0..MaxInterrupts

(* With the SQLite lock, or with dispatches that finish inside their       *)
(* lease, no two workers ever run the same job: process_outbox_batch does  *)
(* not check, when it records a result, that the lease is still its own.   *)
SoleDispatcher ==
    \A v, w \in Workers : cur[v] # None /\ cur[v] = cur[w] => v = w

(* Under the same condition the transaction that carries the effects of a  *)
(* job commits once if the row says Completed, and never otherwise: no     *)
(* crash, retry or reclaimed lease applies a job twice or loses it.        *)
AppliedOnce ==
    \A j \in Jobs : committed[j] = IF status[j] = "Completed" THEN 1 ELSE 0

(* Even when a dispatch outlives its lease, a row says Completed only if   *)
(* its effects have been committed.                                        *)
AtLeastOnce ==
    \A j \in Jobs : status[j] = "Completed" => committed[j] >= 1

(* A job is given up only after max_attempts claims, it waits for another  *)
(* attempt only while it has one left, and beyond max_attempts it is       *)
(* claimed at most once for each interruption of a worker.                 *)
AttemptsExplained ==
    \A j \in Jobs :
        /\ status[j] = "Failed" => attempts[j] >= MaxAttempts
        /\ status[j] = "Pending" => attempts[j] < MaxAttempts
        /\ attempts[j] <= MaxAttempts + interrupts

(* The jobs a dispatch enqueues exist only if that dispatch committed: the *)
(* notifications of an SLA scan that failed are not delivered.             *)
SpawnedByCommit ==
    \A k \in Spawned : status[k] # "Absent" =>
        \E j \in Jobs : k \in Spawns[j] /\ committed[j] >= 1

(* README.md:177 "bounded retries" and docs/OPERATIONS_AND_RECOVERY.md:38  *)
(* "Exhausted jobs become Failed": max_attempts bounds how often a job is  *)
(* run.                                                                    *)
BoundedRetries == \A j \in Jobs : attempts[j] <= MaxAttempts

(* A job that has been Completed or Failed is never claimed, completed,    *)
(* failed or enqueued again.                                               *)
TerminalIsFinal ==
    [][\A j \in Jobs : status[j] \in Terminal =>
          /\ status'[j] = status[j]
          /\ attempts'[j] = attempts[j]
          /\ committed'[j] = committed[j]]_vars

(* Every job that is waiting or in progress is eventually settled, whatever *)
(* fails and whoever is interrupted on the way.                            *)
EveryJobSettles ==
    \A j \in Jobs :
        status[j] \in {"Pending", "Processing"} ~> status[j] \in Terminal

(* Under the condition of SoleDispatcher the outbox implements the durable *)
(* queue, its liveness included.                                           *)
LedgerOf(s) ==
    IF s = "Absent" THEN "none"
    ELSE IF s = "Completed" THEN "done"
    ELSE IF s = "Failed" THEN "abandoned" ELSE "owed"

Queue == INSTANCE DurableQueue WITH
    ledger  <- [j \in Jobs |-> LedgerOf(status[j])],
    tries   <- attempts,
    effects <- committed

ImplementsDurableQueue == Queue!Spec
=============================================================================
