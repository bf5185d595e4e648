---------------------------- MODULE DurableQueue ----------------------------
(***************************************************************************)
(* What the outbox promises to the rest of the application, with no        *)
(* workers, leases, locks or crashes: an accepted job is owed until its    *)
(* effect has been applied exactly once, or until it has been tried        *)
(* MaxAttempts times and is given up; and it does not stay owed forever.   *)
(***************************************************************************)
EXTENDS Integers

CONSTANTS Jobs, Spawns, MaxAttempts

VARIABLES
    ledger,    \* [Jobs -> {"none", "owed", "done", "abandoned"}]
    tries,     \* how often each job has been started
    effects    \* how often the effect of each job has been applied

vars == <<ledger, tries, effects>>

Init ==
    /\ ledger  = [j \in Jobs |-> "none"]
    /\ tries   = [j \in Jobs |-> 0]
    /\ effects = [j \in Jobs |-> 0]

Accept(j) ==
    /\ ledger[j] = "none"
    /\ ledger' = [ledger EXCEPT ![j] = "owed"]
    /\ UNCHANGED <<tries, effects>>

Try(j) ==
    /\ ledger[j] = "owed"
    /\ tries' = [tries EXCEPT ![j] = @ + 1]
    /\ UNCHANGED <<ledger, effects>>

(* The jobs S that the effect of j creates are accepted with that effect. *)
Settle(j) ==
    /\ ledger[j] = "owed"
    /\ \E S \in SUBSET {k \in Spawns[j] : ledger[k] = "none"} :
         ledger' = [k \in Jobs |-> IF k = j THEN "done"
                                   ELSE IF k \in S THEN "owed" ELSE ledger[k]]
    /\ effects' = [effects EXCEPT ![j] = @ + 1]
    /\ UNCHANGED tries

GiveUp(j) ==
    /\ ledger[j] = "owed"
    /\ tries[j] >= MaxAttempts
    /\ ledger' = [ledger EXCEPT ![j] = "abandoned"]
    /\ UNCHANGED <<tries, effects>>

Next == \E j \in Jobs : Accept(j) \/ Try(j) \/ Settle(j) \/ GiveUp(j)

Safety == Init /\ [][Next]_vars

Spec == Safety /\ \A j \in Jobs : WF_vars(Settle(j) \/ GiveUp(j))
=============================================================================
