---------------------------- MODULE WorkflowGraph ----------------------------
(***************************************************************************)
(* validate_workflow_config (src/app/services/workflow_engine.py), the     *)
(* check that every imported, drafted and published workflow definition    *)
(* passes: the checks on lists and numbers, then the two work-list loops   *)
(* that search the graph forwards from the initial stage and backwards     *)
(* from the terminal stages.                                               *)
(*                                                                         *)
(* pending is a list in the code, filled by iterating over a set, so any   *)
(* of its members may be the next.  Types, labels and other text are left  *)
(* out: keys are members of Keys.                                          *)
(***************************************************************************)
EXTENDS Integers, Sequences, Functions

CONSTANTS
    Keys,           \* keys of stages, approvals and fields
    Definitions,    \* the definitions that are validated
    Week,           \* days of a week
    None

Stage == [key : Keys, terminal : BOOLEAN, hours : Int,
          approvals : Seq(Keys), on : SUBSET Keys]
Hour  == Int \cup {None}
Calendar == [days : SUBSET Int, start : Hour, end : Hour, holidays : SUBSET Nat]
Definition == [version : Int, total : Int, rollout : Int,
               baseline : Int \cup {None}, fields : Seq(Keys),
               calendar : Calendar \cup {None},
               stages : Seq(Stage), transitions : Seq(Keys \X Keys), initial : Keys]

ASSUME DefinitionsAssumption ==
    Definitions \subseteq Definition /\ Week \in Nat \ {0}

VARIABLES
    config,
    phase,      \* what validation does next, or how it ended
    reachable, canFinish, pending

vars == <<config, phase, reachable, canFinish, pending>>

-----------------------------------------------------------------------------
StageKeys == {config.stages[i].key : i \in DOMAIN config.stages}
Terminals == {config.stages[i].key : i \in {j \in DOMAIN config.stages :
                                               config.stages[j].terminal}}
Edges     == Range(config.transitions)

Outgoing(s) == {t \in StageKeys : <<s, t>> \in Edges}
Incoming(t) == {s \in StageKeys : <<s, t>> \in Edges}

(* The scalar settings that other modules rely on.                         *)
NumbersOK ==
    /\ config.version >= 1
    /\ config.total >= 0
    /\ config.rollout \in 0..100
    /\ config.baseline # None => config.baseline >= 1

(* The hours of a business calendar are not looked at.                     *)
CalendarOK ==
    config.calendar # None =>
        config.calendar.days # {} /\ config.calendar.days \subseteq 0..Week - 1

FieldsOK == IsInjective(config.fields)

StagesOK ==
    /\ Len(config.stages) >= 2
    /\ \A i, j \in DOMAIN config.stages :
         config.stages[i].key = config.stages[j].key => i = j
    /\ \A i \in DOMAIN config.stages :
         LET s == config.stages[i] IN
            /\ ~s.terminal => s.hours >= 0
            /\ IsInjective(s.approvals)
            /\ s.on \subseteq Range(config.fields)
    /\ config.initial \in StageKeys
    /\ Terminals # {}

TransitionsOK ==
    /\ config.transitions # << >>
    /\ IsInjective(config.transitions)
    /\ Edges \subseteq StageKeys \X StageKeys
    /\ \A e \in Edges : e[1] \notin Terminals

StagesConnected ==
    /\ config.initial \notin Terminals
    /\ \A s \in StageKeys \ Terminals : Outgoing(s) # {}

ListsOK ==
    NumbersOK /\ CalendarOK /\ FieldsOK /\ StagesOK /\ TransitionsOK /\ StagesConnected

-----------------------------------------------------------------------------
Init ==
    /\ config \in Definitions
    /\ phase = "lists"
    /\ reachable = {} /\ canFinish = {} /\ pending = {}

Refuse ==
    /\ phase' = "refused"
    /\ UNCHANGED <<config, reachable, canFinish, pending>>

CheckLists ==
    /\ phase = "lists"
    /\ \/ /\ ListsOK
          /\ phase' = "reach"
          /\ reachable' = {config.initial}
          /\ pending' = {config.initial}
          /\ UNCHANGED <<config, canFinish>>
       \/ ~ListsOK /\ Refuse

\* Variant: stages that have been visited are visited again.
VisitTargetsAgain(s) ==
    /\ phase = "reach"
    /\ s \in pending
    /\ reachable' = reachable \cup Outgoing(s)
    /\ pending' = (pending \ {s}) \cup Outgoing(s)
    /\ UNCHANGED <<config, phase, canFinish>>

VisitTargets(s) ==
    /\ phase = "reach"
    /\ s \in pending
    /\ LET new == Outgoing(s) \ reachable IN
        /\ reachable' = reachable \cup new
        /\ pending' = (pending \ {s}) \cup new
    /\ UNCHANGED <<config, phase, canFinish>>

\* Variant: stages that were never reached are not looked for.
EndReachUnchecked ==
    /\ phase = "reach" /\ pending = {}
    /\ phase' = "finish"
    /\ canFinish' = Terminals
    /\ pending' = Terminals
    /\ UNCHANGED <<config, reachable>>

EndReach ==
    /\ phase = "reach" /\ pending = {}
    /\ \/ /\ StageKeys \subseteq reachable
          /\ phase' = "finish"
          /\ canFinish' = Terminals
          /\ pending' = Terminals
          /\ UNCHANGED <<config, reachable>>
       \/ ~(StageKeys \subseteq reachable) /\ Refuse

\* Variant: the second search follows the transitions forwards.
VisitSourcesForwards(t) ==
    /\ phase = "finish"
    /\ t \in pending
    /\ LET new == Outgoing(t) \ canFinish IN
        /\ canFinish' = canFinish \cup new
        /\ pending' = (pending \ {t}) \cup new
    /\ UNCHANGED <<config, phase, reachable>>

VisitSources(t) ==
    /\ phase = "finish"
    /\ t \in pending
    /\ LET new == Incoming(t) \ canFinish IN
        /\ canFinish' = canFinish \cup new
        /\ pending' = (pending \ {t}) \cup new
    /\ UNCHANGED <<config, phase, reachable>>

EndFinish ==
    /\ phase = "finish" /\ pending = {}
    /\ \/ /\ StageKeys \subseteq canFinish
          /\ phase' = "accepted"
          /\ UNCHANGED <<config, reachable, canFinish, pending>>
       \/ ~(StageKeys \subseteq canFinish) /\ Refuse

Next ==
    \/ CheckLists
    \/ \E s \in Keys : VisitTargets(s)
    \/ EndReach
    \/ \E t \in Keys : VisitSources(t)
    \/ EndFinish

(* Validation is a call: it runs until it returns or raises.               *)
Spec == Init /\ [][Next]_vars /\ WF_vars(Next)

-----------------------------------------------------------------------------
TypeOK ==
    /\ config \in Definitions
    /\ phase \in {"lists", "reach", "finish", "accepted", "refused"}
    /\ {reachable, canFinish, pending} \subseteq SUBSET Keys

(* Reference: a stage is reached by everything closed under transitions.   *)
Closed(S) == \A e \in Edges : e[1] \in S => e[2] \in S

AllReached == \A S \in SUBSET Keys : config.initial \in S /\ Closed(S) => StageKeys \subseteq S

AllCanFinish ==
    \A s \in StageKeys : \A S \in SUBSET Keys :
        s \in S /\ Closed(S) => S \cap Terminals # {}

(* A definition that is accepted has no unreachable stage and no dead end  *)
(* (workflow_engine.py:245 and :257), in whatever order the stages were    *)
(* visited, and meets what CaseLifecycle and SlaClock assume of a captured *)
(* configuration.                                                          *)
AcceptedIsSound ==
    phase = "accepted" =>
        /\ AllReached /\ AllCanFinish
        /\ config.initial \in StageKeys \ Terminals
        /\ Edges \subseteq (StageKeys \ Terminals) \X StageKeys
        /\ \A i \in DOMAIN config.stages :
             ~config.stages[i].terminal => config.stages[i].hours \in Nat

(* A definition whose lists are in order is refused only for a stage that  *)
(* really is unreachable or a dead end.                                    *)
RefusedIsUnsound ==
    phase = "refused" /\ ListsOK => ~AllReached \/ ~AllCanFinish

(* Validation decides what its errors say: "Unreachable stage(s)"          *)
(* (workflow_engine.py:245), "cannot reach a terminal outcome" (:257).     *)
ValidationIsRight == AcceptedIsSound /\ RefusedIsUnsound

(* Both loops end, also on graphs with rework cycles and self loops.       *)
ValidationEnds == <>(phase \in {"accepted", "refused"})
=============================================================================
