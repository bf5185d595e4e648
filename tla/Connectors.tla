----------------------------- MODULE Connectors -----------------------------
(***************************************************************************)
(* Connector executions (src/app/services/connectors.py) run as jobs of    *)
(* the durable outbox.  A workflow transition queues an execution with its *)
(* job; the dispatch of the job sends the request and records the result   *)
(* in the transaction that completes the job.  What the receiver got is    *)
(* outside every transaction.                                              *)
(*                                                                         *)
(* Job j is the job of execution j.                                        *)
(***************************************************************************)
EXTENDS Integers, Sequences

CONSTANTS
    Jobs, Workers, None, Rank, Spawns, MaxAttempts, BatchLimit,
    Serialized, SlowDispatch, MaxInterrupts,    \* as in Outbox
    Remote                                      \* executions of webhook connectors

ASSUME RemoteAssumption == Remote \subseteq Jobs

VARIABLES
    status, attempts, due, lapsed, committed,
    lock, pc, cur, seen, taken, interrupts,     \* as in Outbox
    exec,       \* IntegrationExecution.status, "Absent" without a row
    trail,      \* the integration entries of the case's activity history
    enabled,    \* IntegrationConnector.enabled
    received,   \* how many requests of the execution reached the receiver
    answer      \* what the worker's request came back with

outboxVars    == <<status, attempts, due, lapsed, committed, lock, pc, cur, seen, taken, interrupts>>
connectorVars == <<exec, trail, enabled, received, answer>>
vars          == <<outboxVars, connectorVars>>

O == INSTANCE Outbox

(* The dispatch of a connector job enqueues no other.                      *)
ASSUME JobsAssumption == O!ConstantsAssumption /\ \A j \in Jobs : Spawns[j] = {}

Init ==
    /\ O!Init
    /\ exec     = [j \in Jobs |-> "Absent"]
    /\ trail    = [j \in Jobs |-> <<>>]
    /\ enabled  = [j \in Jobs |-> TRUE]
    /\ received = [j \in Jobs |-> 0]
    /\ answer   = [w \in Workers |-> "none"]

(* A transition whose connector is enabled; otherwise nothing is queued.   *)
EnqueueTransitionConnector(j) ==
    /\ enabled[j]
    /\ O!Enqueue(j)
    /\ exec'  = [exec EXCEPT ![j] = "Queued"]
    /\ trail' = [trail EXCEPT ![j] = Append(@, "integration_queued")]
    /\ UNCHANGED <<enabled, received, answer>>

(* An administrator saves the connector in the Studio.                     *)
SwitchConnector(j) ==
    /\ lock = None
    /\ enabled' = [enabled EXCEPT ![j] = ~@]
    /\ UNCHANGED <<outboxVars, exec, trail, received, answer>>

Executing(w, j) == pc[w] = "dispatching" /\ cur[w] = j /\ answer[w] = "none"

\* Variant: the client repeats a request that came back with an error.
SendRequestRepeating(w) ==
    \E j \in Remote :
        /\ pc[w] = "dispatching" /\ cur[w] = j /\ answer[w] # "success"
        /\ enabled[j]
        /\ answer' \in {[answer EXCEPT ![w] = a] : a \in {"success", "error"}}
        /\ received' = [received EXCEPT ![j] = @ + 1]
        /\ UNCHANGED <<outboxVars, exec, trail, enabled>>

(* One HTTP request.  A timeout or an error status is an error whether or  *)
(* not the receiver has acted on the request.                              *)
SendRequest(w) ==
    \E j \in Remote :
        /\ Executing(w, j)
        /\ enabled[j]
        /\ \/ /\ answer'   = [answer EXCEPT ![w] = "success"]
              /\ received' = [received EXCEPT ![j] = @ + 1]
           \/ /\ answer' = [answer EXCEPT ![w] = "error"]
              /\ received' \in {received, [received EXCEPT ![j] = @ + 1]}
    /\ UNCHANGED <<outboxVars, exec, trail, enabled>>

\* Variant: the request is handed over and its answer not awaited.
SucceededUnsent(w, j) == Executing(w, j) /\ enabled[j]

Succeeded(w, j) ==
    \/ answer[w] = "success"
    \/ j \notin Remote /\ Executing(w, j) /\ enabled[j]

ExecutionCompletes(w) ==
    /\ \E j \in Jobs : cur[w] = j /\ Succeeded(w, j)
    /\ O!Complete(w)
    /\ exec'   = [exec EXCEPT ![cur[w]] = "Completed"]
    /\ trail'  = [trail EXCEPT ![cur[w]] = Append(@, "integration_completed")]
    /\ answer' = [answer EXCEPT ![w] = "none"]
    /\ UNCHANGED <<enabled, received>>

ExecutionSkipped(w) ==
    /\ \E j \in Jobs : Executing(w, j) /\ ~enabled[j]
    /\ O!Complete(w)
    /\ exec' = [exec EXCEPT ![cur[w]] = "Skipped"]
    /\ UNCHANGED <<trail, enabled, received, answer>>

\* Variant: a failed job starts again with no attempt counted.
ExecutionFailsAfresh(w) ==
    /\ pc[w] = "dispatching"
    /\ O!Insert({cur[w]})
    /\ O!NextJob(w)
    /\ attempts' = [attempts EXCEPT ![cur[w]] = 0]
    /\ lapsed'   = [lapsed EXCEPT ![cur[w]] = FALSE]
    /\ answer'   = [answer EXCEPT ![w] = "none"]
    /\ UNCHANGED <<committed, lock, taken, interrupts, exec, trail, enabled, received>>

(* The handler sets the execution to Failed, appends integration_failed    *)
(* and re-raises; process_outbox_batch rolls both back before it records   *)
(* the failure of the job.  Validation may raise before any request, and   *)
(* the commit may raise after a successful one.                            *)
ExecutionFails(w) ==
    /\ O!Fail(w)
    /\ answer' = [answer EXCEPT ![w] = "none"]
    /\ UNCHANGED <<exec, trail, enabled, received>>

Interrupt(w) ==
    /\ O!Interrupt(w)
    /\ answer' = [answer EXCEPT ![w] = "none"]
    /\ UNCHANGED <<exec, trail, enabled, received>>

Work(w) ==
    \/ SendRequest(w)
    \/ ExecutionCompletes(w)
    \/ ExecutionSkipped(w)
    \/ ExecutionFails(w)
    \/ /\ O!BatchStart(w) \/ O!Claim(w) \/ O!Load(w) \/ O!BatchEnd(w)
       /\ UNCHANGED connectorVars

Tick(j) == O!Tick(j) /\ UNCHANGED connectorVars

Next ==
    \/ \E j \in Jobs : EnqueueTransitionConnector(j) \/ SwitchConnector(j) \/ Tick(j)
    \/ \E w \in Workers : Work(w) \/ Interrupt(w)

Fairness ==
    /\ \A w \in Workers : WF_vars(Work(w))
    /\ \A j \in Jobs : WF_vars(Tick(j))

Spec == Init /\ [][Next]_vars /\ Fairness

-----------------------------------------------------------------------------
TypeOK ==
    /\ O!TypeOK
    /\ exec \in [Jobs -> {"Absent", "Queued", "Completed", "Skipped", "Failed"}]
    /\ \A j \in Jobs : trail[j] \in Seq({"integration_queued", "integration_completed",
                                         "integration_failed"})
    /\ enabled \in [Jobs -> BOOLEAN]
    /\ received \in [Jobs -> Nat]
    /\ answer \in [Workers -> {"none", "success", "error"}]

(* What is queued, completed or skipped is one decision, written in one    *)
(* transaction: execution row, case history and job row tell the same,     *)
(* whatever was retried or crashed, and no execution counts as completed   *)
(* or skipped whose job does not.  Of a failed job nothing more is said:   *)
(* the record of its failure is rolled back (see FailureIsVisible).        *)
RecordsAgree ==
    \A j \in Jobs :
        /\ (exec[j] = "Absent") <=> (status[j] = "Absent")
        /\ (exec[j] \in {"Completed", "Skipped"}) <=> (status[j] = "Completed")
        /\ status[j] \in {"Pending", "Processing"} => exec[j] = "Queued"
        /\ status[j] # "Failed" =>
              trail[j] = CASE exec[j] = "Absent"    -> <<>>
                           [] exec[j] = "Completed" -> <<"integration_queued",
                                                         "integration_completed">>
                           [] OTHER                 -> <<"integration_queued">>

(* A webhook reported as Completed has reached its receiver.               *)
CompletedWasReceived ==
    \A j \in Remote : exec[j] = "Completed" => received[j] >= 1

(* The receiver sees at most one request per attempt, and none of the      *)
(* attempt that finds the connector disabled: the Idempotency-Key it is    *)
(* given has to absorb at most attempts - 1 repetitions.                   *)
OneRequestPerAttempt ==
    \A j \in Jobs :
        received[j] <= attempts[j] - (IF exec[j] = "Skipped" THEN 1 ELSE 0)

(* docs/OPERATIONS_AND_RECOVERY.md:44 "A failed connector job is visible   *)
(* in both Operations and the associated case audit trail."  It is not:    *)
(* the failure of the job is recorded after the rollback of the rest.      *)
FailureIsVisible ==
    \A j \in Jobs : status[j] = "Failed" =>
        /\ exec[j] = "Failed"
        /\ \E n \in DOMAIN trail[j] : trail[j][n] = "integration_failed"

(* Every queued execution ends: its job is Completed or Failed, although a *)
(* connector may be switched off and on between two attempts.              *)
EveryExecutionEnds ==
    \A j \in Jobs : exec[j] = "Queued" ~> status[j] \in {"Completed", "Failed"}
=============================================================================
