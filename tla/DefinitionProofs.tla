--------------------------- MODULE DefinitionProofs ---------------------------
(***************************************************************************)
(* Proofs about workflow definitions: what validation (WorkflowGraph)      *)
(* decides, for every set of definitions, and what the business calendar   *)
(* of an accepted one (ServiceCalendar) gives as a deadline, for every     *)
(* day, week, start and number of hours.                                   *)
(***************************************************************************)
EXTENDS ServiceCalendar, FiniteSetTheorems, WellFoundedInduction, TLAPS

(* The stages that have been found are reached, and only those whose       *)
(* targets have not been looked at are pending.                            *)
SearchForwards ==
    /\ config.initial \in reachable /\ pending \subseteq reachable
    /\ \A e \in Edges : e[1] \in reachable \ pending => e[2] \in reachable
    /\ \A S \in SUBSET Keys : config.initial \in S /\ Closed(S) => reachable \subseteq S

(* The same backwards, from the terminal stages.                           *)
SearchBackwards ==
    /\ Terminals \subseteq canFinish /\ pending \subseteq canFinish
    /\ \A e \in Edges : e[2] \in canFinish \ pending => e[1] \in canFinish
    /\ \A s \in canFinish : \A S \in SUBSET Keys :
          s \in S /\ Closed(S) => S \cap Terminals # {}

(* The two searches, and what they leave behind.                           *)
GraphInv ==
    /\ TypeOK
    /\ phase \in {"reach", "finish", "accepted"} => ListsOK
    /\ phase = "reach" => SearchForwards
    /\ phase \in {"finish", "accepted"} => AllReached
    /\ phase = "finish" => SearchBackwards
    /\ phase = "accepted" => AllCanFinish
    /\ RefusedIsUnsound

-----------------------------------------------------------------------------
(* Validation                                                              *)

LEMMA ConfigKept ==
  ASSUME config' = config
  PROVE  /\ Edges' = Edges /\ StageKeys' = StageKeys /\ Terminals' = Terminals
         /\ ListsOK' <=> ListsOK
         /\ AllReached' <=> AllReached
         /\ AllCanFinish' <=> AllCanFinish
<1>1. Edges' = Edges /\ StageKeys' = StageKeys /\ Terminals' = Terminals
  BY DEF Edges, StageKeys, Terminals
<1>2. \A s : Outgoing(s)' = Outgoing(s)
  BY <1>1 DEF Outgoing
<1>3. ListsOK' <=> ListsOK
  BY <1>1, <1>2 DEF ListsOK, NumbersOK, CalendarOK, FieldsOK, StagesOK, TransitionsOK,
                    StagesConnected
<1>4. \A S : Closed(S)' <=> Closed(S)
  BY <1>1 DEF Closed
<1>5. AllReached' <=> AllReached
  BY <1>1, <1>4 DEF AllReached
<1>6. AllCanFinish' <=> AllCanFinish
  BY <1>1, <1>4 DEF AllCanFinish
<1>7. QED
  BY <1>1, <1>3, <1>5, <1>6

(* What the lists guarantee about the graph.                               *)
LEMMA ListedGraph ==
  ASSUME config \in Definitions
  PROVE  /\ StageKeys \subseteq Keys /\ Terminals \subseteq StageKeys
         /\ ListsOK => /\ config.initial \in StageKeys \ Terminals
                       /\ Edges \subseteq StageKeys \X StageKeys
                       /\ \A e \in Edges : e[1] \in StageKeys \ Terminals /\ e[2] \in StageKeys
<1>1. config \in Definition
  BY DefinitionsAssumption
<1>2. config.stages \in Seq(Stage)
  BY <1>1 DEF Definition
<1>3. \A i \in DOMAIN config.stages : config.stages[i].key \in Keys
  <2>1. \A i \in DOMAIN config.stages : config.stages[i] \in Stage
    BY <1>2
  <2>2. QED
    BY <2>1 DEF Stage
<1>4. StageKeys \subseteq Keys /\ Terminals \subseteq StageKeys
  BY <1>3 DEF StageKeys, Terminals
<1>5. ASSUME ListsOK
      PROVE  /\ config.initial \in StageKeys \ Terminals
             /\ Edges \subseteq StageKeys \X StageKeys
             /\ \A e \in Edges : e[1] \in StageKeys \ Terminals /\ e[2] \in StageKeys
  <2>1. /\ config.initial \in StageKeys /\ config.initial \notin Terminals
        /\ Edges \subseteq StageKeys \X StageKeys
        /\ \A e \in Edges : e[1] \notin Terminals
    BY <1>5 DEF ListsOK, StagesOK, TransitionsOK, StagesConnected
  <2>2. \A e \in Edges : e \in StageKeys \X StageKeys
    BY <2>1
  <2>3. \A e \in StageKeys \X StageKeys : e[1] \in StageKeys /\ e[2] \in StageKeys
    OBVIOUS
  <2>4. QED
    BY <2>1, <2>2, <2>3
<1>6. QED
  BY <1>4, <1>5

LEMMA InitGraph ==
  ASSUME Init
  PROVE  GraphInv
BY DEF Init, GraphInv, TypeOK, RefusedIsUnsound

LEMMA CheckListsStep ==
  ASSUME GraphInv, CheckLists
  PROVE  GraphInv'
<1>1. config \in Definitions /\ config' = config /\ canFinish' = canFinish
  BY DEF GraphInv, TypeOK, CheckLists, Refuse
<1>2. CASE ListsOK /\ phase' = "reach" /\ reachable' = {config.initial}
           /\ pending' = {config.initial}
  <2>1. config.initial \in Keys
    BY <1>1, <1>2, ListedGraph
  <2>2. TypeOK'
    BY <1>1, <1>2, <2>1 DEF GraphInv, TypeOK
  <2>3. SearchForwards'
    BY <1>1, <1>2 DEF SearchForwards
  <2>4. ListsOK'
    BY <1>1, <1>2, ConfigKept
  <2>5. QED
    BY <1>2, <2>2, <2>3, <2>4 DEF GraphInv, RefusedIsUnsound
<1>3. CASE ~ListsOK /\ phase' = "refused" /\ UNCHANGED <<reachable, pending>>
  <2>1. ~ListsOK'
    BY <1>1, <1>3, ConfigKept
  <2>2. TypeOK'
    BY <1>1, <1>3 DEF GraphInv, TypeOK
  <2>3. QED
    BY <1>3, <2>1, <2>2 DEF GraphInv, RefusedIsUnsound
<1>4. QED
  BY <1>2, <1>3 DEF CheckLists, Refuse

LEMMA VisitTargetsStep ==
  ASSUME GraphInv, NEW s \in Keys, VisitTargets(s)
  PROVE  GraphInv'
<1> DEFINE new == Outgoing(s) \ reachable
<1>1. /\ phase = "reach" /\ phase' = "reach" /\ s \in pending
      /\ config' = config /\ canFinish' = canFinish
      /\ reachable' = reachable \cup new
      /\ pending' = (pending \ {s}) \cup new
  BY DEF VisitTargets
<1>2. /\ config \in Definitions /\ ListsOK /\ SearchForwards
      /\ reachable \subseteq Keys /\ pending \subseteq Keys /\ canFinish \subseteq Keys
  BY <1>1 DEF GraphInv, TypeOK
<1>3. /\ StageKeys \subseteq Keys /\ Edges \subseteq StageKeys \X StageKeys
      /\ \A e \in Edges : e[2] \in StageKeys
  BY <1>2, ListedGraph
<1>4. Outgoing(s) \subseteq Keys
  BY <1>3 DEF Outgoing
<1>5. TypeOK'
  BY <1>1, <1>2, <1>4 DEF TypeOK
<1>6. \A e \in Edges : e[1] = s => e[2] \in Outgoing(s)
  <2>1. TAKE e \in Edges
  <2>2. e = <<e[1], e[2]>>
    BY <1>3
  <2>3. QED
    BY <1>3, <2>2 DEF Outgoing
<1>7. \A e \in Edges : e[1] \in reachable' \ pending' => e[2] \in reachable'
  <2> HIDE DEF new
  <2>1. TAKE e \in Edges
  <2>2. HAVE e[1] \in reachable' \ pending'
  <2>3. CASE e[1] = s
    <3>1. e[2] \in Outgoing(s)
      BY <1>6, <2>3
    <3>2. QED
      BY <1>1, <3>1 DEF new
  <2>4. CASE e[1] # s
    BY <1>1, <1>2, <2>2, <2>4 DEF SearchForwards
  <2>5. QED
    BY <2>3, <2>4
<1>8. ASSUME NEW S \in SUBSET Keys, config.initial \in S, Closed(S)
      PROVE  reachable' \subseteq S
  <2>1. reachable \subseteq S /\ s \in S
    BY <1>1, <1>2, <1>8 DEF SearchForwards
  <2>2. Outgoing(s) \subseteq S
    BY <1>8, <2>1 DEF Outgoing, Closed
  <2>3. QED
    BY <1>1, <2>1, <2>2
<1>9. config.initial \in reachable' /\ pending' \subseteq reachable'
  BY <1>1, <1>2 DEF SearchForwards
<1>10. SearchForwards'
  <2>1. Edges' = Edges /\ \A S : Closed(S)' <=> Closed(S)
    BY <1>1 DEF Edges, Closed
  <2>2. QED
    BY <1>1, <1>7, <1>8, <1>9, <2>1 DEF SearchForwards
<1>11. ListsOK'
  BY <1>1, <1>2, ConfigKept
<1>12. QED
  BY <1>1, <1>5, <1>10, <1>11 DEF GraphInv, RefusedIsUnsound

LEMMA EndReachStep ==
  ASSUME GraphInv, EndReach
  PROVE  GraphInv'
<1>1. /\ phase = "reach" /\ pending = {} /\ config' = config /\ reachable' = reachable
  BY DEF EndReach, Refuse
<1>2. config \in Definitions /\ ListsOK /\ SearchForwards /\ reachable \subseteq Keys
      /\ canFinish \subseteq Keys
  BY <1>1 DEF GraphInv, TypeOK
<1>3. ListsOK' /\ (AllReached' <=> AllReached) /\ (AllCanFinish' <=> AllCanFinish)
      /\ Terminals' = Terminals
  BY <1>1, <1>2, ConfigKept
<1>4. Terminals \subseteq Keys
  BY <1>2, ListedGraph
<1>5. CASE StageKeys \subseteq reachable /\ phase' = "finish"
           /\ canFinish' = Terminals /\ pending' = Terminals
  <2>1. AllReached
    BY <1>2, <1>5 DEF SearchForwards, AllReached
  <2>2. TypeOK'
    BY <1>1, <1>2, <1>4, <1>5 DEF TypeOK
  <2>3. SearchBackwards'
    BY <1>3, <1>5 DEF SearchBackwards
  <2>4. QED
    BY <1>3, <1>5, <2>1, <2>2, <2>3 DEF GraphInv, RefusedIsUnsound
<1>6. CASE ~(StageKeys \subseteq reachable) /\ phase' = "refused"
           /\ canFinish' = canFinish /\ pending' = pending
  <2>1. Closed(reachable)
    BY <1>1, <1>2 DEF SearchForwards, Closed
  <2>2. ~AllReached
    BY <1>2, <1>6, <2>1 DEF SearchForwards, AllReached
  <2>3. TypeOK'
    BY <1>1, <1>2, <1>6 DEF TypeOK
  <2>4. QED
    BY <1>3, <1>6, <2>2, <2>3 DEF GraphInv, RefusedIsUnsound
<1>7. QED
  BY <1>5, <1>6 DEF EndReach, Refuse

LEMMA VisitSourcesStep ==
  ASSUME GraphInv, NEW t \in Keys, VisitSources(t)
  PROVE  GraphInv'
<1> DEFINE new == Incoming(t) \ canFinish
<1>1. /\ phase = "finish" /\ phase' = "finish" /\ t \in pending
      /\ config' = config /\ reachable' = reachable
      /\ canFinish' = canFinish \cup new
      /\ pending' = (pending \ {t}) \cup new
  BY DEF VisitSources
<1>2. /\ config \in Definitions /\ ListsOK /\ SearchBackwards /\ AllReached
      /\ reachable \subseteq Keys /\ pending \subseteq Keys /\ canFinish \subseteq Keys
  BY <1>1 DEF GraphInv, TypeOK
<1>3. /\ StageKeys \subseteq Keys /\ Edges \subseteq StageKeys \X StageKeys
      /\ \A e \in Edges : e[1] \in StageKeys
  BY <1>2, ListedGraph
<1>4. Incoming(t) \subseteq Keys
  BY <1>3 DEF Incoming
<1>5. TypeOK'
  BY <1>1, <1>2, <1>4 DEF TypeOK
<1>6. \A e \in Edges : e[2] = t => e[1] \in Incoming(t)
  <2>1. TAKE e \in Edges
  <2>2. e = <<e[1], e[2]>>
    BY <1>3
  <2>3. QED
    BY <1>3, <2>2 DEF Incoming
<1>7. \A e \in Edges : e[2] \in canFinish' \ pending' => e[1] \in canFinish'
  <2> HIDE DEF new
  <2>1. TAKE e \in Edges
  <2>2. HAVE e[2] \in canFinish' \ pending'
  <2>3. CASE e[2] = t
    <3>1. e[1] \in Incoming(t)
      BY <1>6, <2>3
    <3>2. QED
      BY <1>1, <3>1 DEF new
  <2>4. CASE e[2] # t
    BY <1>1, <1>2, <2>2, <2>4 DEF SearchBackwards
  <2>5. QED
    BY <2>3, <2>4
<1>8. ASSUME NEW s \in canFinish', NEW S \in SUBSET Keys, s \in S, Closed(S)
      PROVE  S \cap Terminals # {}
  <2>1. CASE s \in canFinish
    BY <1>2, <1>8, <2>1 DEF SearchBackwards
  <2>2. CASE s \in Incoming(t)
    <3>1. t \in S
      BY <1>8, <2>2 DEF Incoming, Closed
    <3>2. t \in canFinish
      BY <1>1, <1>2 DEF SearchBackwards
    <3>3. QED
      BY <1>2, <1>8, <3>1, <3>2 DEF SearchBackwards
  <2>3. QED
    BY <1>1, <1>8, <2>1, <2>2
<1>9. Terminals \subseteq canFinish' /\ pending' \subseteq canFinish'
  BY <1>1, <1>2 DEF SearchBackwards
<1>10. SearchBackwards'
  <2>1. Edges' = Edges /\ Terminals' = Terminals /\ \A S : Closed(S)' <=> Closed(S)
    BY <1>1 DEF Edges, Closed, Terminals
  <2>2. QED
    BY <1>7, <1>8, <1>9, <2>1 DEF SearchBackwards
<1>11. ListsOK' /\ AllReached'
  BY <1>1, <1>2, ConfigKept
<1>12. QED
  BY <1>1, <1>5, <1>10, <1>11 DEF GraphInv, RefusedIsUnsound

LEMMA EndFinishStep ==
  ASSUME GraphInv, EndFinish
  PROVE  GraphInv'
<1>1. /\ phase = "finish" /\ pending = {}
      /\ UNCHANGED <<config, reachable, canFinish, pending>>
  BY DEF EndFinish, Refuse
<1>2. /\ config \in Definitions /\ ListsOK /\ SearchBackwards /\ AllReached
      /\ reachable \subseteq Keys /\ canFinish \subseteq Keys
  BY <1>1 DEF GraphInv, TypeOK
<1>3. /\ ListsOK' /\ (AllReached' <=> AllReached) /\ (AllCanFinish' <=> AllCanFinish)
  BY <1>1, <1>2, ConfigKept
<1>4. TypeOK /\ StageKeys \subseteq Keys /\ \A e \in Edges : e[2] \in Keys
  BY <1>2, ListedGraph DEF GraphInv
<1>5. CASE StageKeys \subseteq canFinish /\ phase' = "accepted"
  <2>1. AllCanFinish
    BY <1>2, <1>5 DEF SearchBackwards, AllCanFinish
  <2>2. TypeOK'
    BY <1>1, <1>4, <1>5 DEF TypeOK
  <2>3. QED
    BY <1>2, <1>3, <1>5, <2>1, <2>2 DEF GraphInv, RefusedIsUnsound
<1>6. CASE ~(StageKeys \subseteq canFinish) /\ phase' = "refused"
  <2>1. PICK s \in StageKeys : s \notin canFinish
    BY <1>6
  <2>2. PICK S \in SUBSET Keys : S = Keys \ canFinish
    OBVIOUS
  <2>3. Closed(S)
    BY <1>1, <1>2, <1>4, <2>2 DEF SearchBackwards, Closed
  <2>4. s \in S /\ S \cap Terminals = {}
    BY <1>2, <1>4, <2>1, <2>2 DEF SearchBackwards
  <2>5. ~AllCanFinish
    BY <2>1, <2>3, <2>4 DEF AllCanFinish
  <2>6. TypeOK'
    BY <1>1, <1>4, <1>6 DEF TypeOK
  <2>7. QED
    BY <1>3, <1>6, <2>5, <2>6 DEF GraphInv, RefusedIsUnsound
<1>7. QED
  BY <1>5, <1>6 DEF EndFinish, Refuse

LEMMA GraphStep ==
  ASSUME GraphInv, [Next]_vars
  PROVE  GraphInv'
<1>1. CASE UNCHANGED vars
  <2>1. UNCHANGED <<config, phase, reachable, canFinish, pending>>
    BY <1>1 DEF vars
  <2>2. /\ ListsOK' <=> ListsOK
        /\ AllReached' <=> AllReached
        /\ AllCanFinish' <=> AllCanFinish
        /\ Edges' = Edges /\ Terminals' = Terminals
    BY <2>1, ConfigKept
  <2>3. \A S : Closed(S)' <=> Closed(S)
    BY <2>2 DEF Closed
  <2>4. /\ TypeOK' <=> TypeOK
        /\ SearchForwards' <=> SearchForwards
        /\ SearchBackwards' <=> SearchBackwards
    BY <2>1, <2>2, <2>3 DEF TypeOK, SearchForwards, SearchBackwards
  <2>5. QED
    BY <2>1, <2>2, <2>4 DEF GraphInv, RefusedIsUnsound
<1>2. QED
  BY <1>1, CheckListsStep, VisitTargetsStep, EndReachStep, VisitSourcesStep, EndFinishStep
     DEF Next

LEMMA ValidationInductive ==
  Spec => []GraphInv
<1>1. Init => GraphInv
  BY InitGraph
<1>2. GraphInv /\ [Next]_vars => GraphInv'
  BY GraphStep
<1>3. QED
  BY <1>1, <1>2, PTL DEF Spec

LEMMA GraphInvDecides ==
  ASSUME GraphInv
  PROVE  ValidationIsRight
<1>1. ASSUME phase = "accepted"
      PROVE  AcceptedIsSound
  <2>1. config \in Definitions /\ ListsOK /\ AllReached /\ AllCanFinish
    BY <1>1 DEF GraphInv, TypeOK
  <2>2. /\ config.initial \in StageKeys \ Terminals
        /\ Edges \subseteq (StageKeys \ Terminals) \X StageKeys
    <3>1. /\ config.initial \in StageKeys \ Terminals
          /\ Edges \subseteq StageKeys \X StageKeys
          /\ \A e \in Edges : e[1] \in StageKeys \ Terminals /\ e[2] \in StageKeys
      BY <2>1, ListedGraph
    <3>2. QED
      BY <3>1
  <2>3. ASSUME NEW i \in DOMAIN config.stages, ~config.stages[i].terminal
        PROVE  config.stages[i].hours \in Nat
    <3>1. config.stages \in Seq(Stage)
      BY <2>1, DefinitionsAssumption DEF Definition
    <3>2. config.stages[i] \in Stage
      BY <3>1
    <3>3. config.stages[i].hours \in Int
      BY <3>2 DEF Stage
    <3>4. config.stages[i].hours >= 0
      BY <2>1, <2>3 DEF ListsOK, StagesOK
    <3>5. QED
      BY <3>3, <3>4
  <2>4. QED
    BY <2>1, <2>2, <2>3 DEF AcceptedIsSound
<1>2. QED
  BY <1>1 DEF GraphInv, ValidationIsRight, AcceptedIsSound

(* An accepted definition has no unreachable stage and no dead end, and a  *)
(* definition whose lists are in order is refused only for one of them, in *)
(* whatever order the two searches of validate_workflow_config visit the   *)
(* stages.                                                                 *)
THEOREM ValidationDecides ==
  Spec => []ValidationIsRight
<1>1. GraphInv => ValidationIsRight
  BY GraphInvDecides
<1>2. QED
  BY <1>1, ValidationInductive, PTL

-----------------------------------------------------------------------------
(* The business calendar: invariant                                        *)

(* No day from that of t on, as far as the search looks, has service left. *)
NothingAhead(t) ==
    \A d \in DayOf(t)..DayOf(t) + Horizon - 1 :
        OpenDay(d) => d = DayOf(t) /\ t >= OpeningOf(d) /\ t >= ClosingOf(d)

Served(t, u) == {i \in t..u - 1 : InService(i)}

Calculation == [from : Nat, hours : Nat \ {0}, remaining : Nat \ {0},
                local : Nat, due : Nat \cup {None}]

(* Where the calculation r stands, if service ends after it begins: within *)
(* the service of a day, or past it with nothing ahead.                    *)
Stands(r) ==
    \/ /\ OpenDay(DayOf(r.local)) /\ r.from <= r.local
       /\ r.local < ClosingOf(DayOf(r.local))
    \/ /\ ~OpenDay(DayOf(r.local)) /\ r.from <= r.local
       /\ NothingAhead(r.local)
    \/ /\ OpenDay(DayOf(r.local)) /\ DayOf(r.from) <= DayOf(r.local)
       /\ r.local >= ClosingOf(DayOf(r.local))
       /\ NothingAhead(r.local)

(* The service up to local has been taken from what remains.               *)
Accounted(r) ==
    Cardinality(Served(r.from, r.local)) + r.remaining = r.hours

Running(r) ==
    /\ config.calendar # None
    /\ OpenDay(DayOf(r.local)) => r.local >= OpeningOf(DayOf(r.local))
    /\ Closes > Opens => Stands(r) /\ Accounted(r)

Exact(r) ==
    Cardinality(Served(r.from, r.due)) = r.hours /\ InService(r.due - 1)

(* A calculation that is under way, or has ended with its deadline.        *)
RecordOK(r) ==
    /\ r \in Calculation
    /\ IF r.due = None THEN Running(r) ELSE Exact(r)

-----------------------------------------------------------------------------
(* Days, and the hours of service                                          *)

LEMMA DaysApart ==
  ASSUME NEW d \in Nat, NEW e \in Nat
  PROVE  /\ d * Day \in Nat
         /\ d < e => d * Day + Day <= e * Day
<1>1. Day \in Nat \ {0}
  BY CalendarAssumption
<1>2. d * Day \in Nat
  BY <1>1
<1>3. d < e => d * Day + Day <= e * Day
  BY <1>1
<1>4. QED
  BY <1>2, <1>3

LEMMA DayDivides ==
  ASSUME NEW t \in Nat
  PROVE  /\ DayOf(t) \in Nat /\ DayOf(t) * Day \in Nat
         /\ t % Day \in Nat /\ t = DayOf(t) * Day + (t % Day)
         /\ DayOf(t) * Day <= t /\ t < DayOf(t) * Day + Day
<1>1. Day \in Nat \ {0}
  BY CalendarAssumption
<1>2. DayOf(t) \in Nat
  BY <1>1 DEF DayOf
<1>3. t % Day \in 0..Day - 1
  BY <1>1
<1>4. t = (t \div Day) * Day + (t % Day)
  BY <1>1
<1>5. DayOf(t) * Day \in Nat
  BY <1>2, DaysApart
<1>6. PICK k : k = DayOf(t) * Day
  OBVIOUS
<1>7. t = k + (t % Day)
  BY <1>4, <1>6 DEF DayOf
<1>8. t % Day \in Nat /\ k \in Nat /\ k <= t /\ t < k + Day
  BY <1>1, <1>3, <1>5, <1>6, <1>7
<1>9. QED
  BY <1>2, <1>6, <1>7, <1>8

LEMMA DayIs ==
  ASSUME NEW t \in Nat, NEW d \in Nat, d * Day <= t, t < d * Day + Day
  PROVE  DayOf(t) = d
<1>1. Day \in Nat \ {0}
  BY CalendarAssumption
<1>2. DayOf(t) \in Nat /\ DayOf(t) * Day \in Nat /\ d * Day \in Nat
      /\ DayOf(t) * Day <= t /\ t < DayOf(t) * Day + Day
  BY DayDivides, DaysApart
<1>3. ~(DayOf(t) < d)
  BY <1>1, <1>2, DaysApart
<1>4. ~(d < DayOf(t))
  BY <1>1, <1>2, DaysApart
<1>5. QED
  BY <1>2, <1>3, <1>4

LEMMA DaysInOrder ==
  ASSUME NEW t \in Nat, NEW u \in Nat, t <= u
  PROVE  DayOf(t) <= DayOf(u)
<1>1. Day \in Nat \ {0}
  BY CalendarAssumption
<1>2. /\ DayOf(t) \in Nat /\ DayOf(u) \in Nat
      /\ DayOf(t) * Day <= t /\ u < DayOf(u) * Day + Day
      /\ DayOf(t) * Day \in Nat /\ DayOf(u) * Day \in Nat
  BY DayDivides, DaysApart
<1>3. ~(DayOf(u) < DayOf(t))
  BY <1>1, <1>2, DaysApart
<1>4. QED
  BY <1>2, <1>3

LEMMA HoursOfDay ==
  ASSUME config \in Definitions, config.calendar # None
  PROVE  Opens \in 0..Day - 1 /\ Closes \in 0..Day - 1
<1>1. {config.calendar.start, config.calendar.end} \subseteq (0..Day - 1) \cup {None}
  BY CalendarAssumption
<1>2. DefaultStart \in 0..Day - 1 /\ DefaultEnd \in 0..Day - 1
  BY CalendarAssumption
<1>3. QED
  BY <1>1, <1>2 DEF Opens, Closes

LEMMA DayOfHours ==
  ASSUME config \in Definitions, config.calendar # None, NEW d \in Nat
  PROVE  /\ OpeningOf(d) \in Nat /\ ClosingOf(d) \in Nat
         /\ d * Day <= OpeningOf(d) /\ OpeningOf(d) < d * Day + Day
         /\ d * Day <= ClosingOf(d) /\ ClosingOf(d) < d * Day + Day
         /\ DayOf(OpeningOf(d)) = d /\ DayOf(ClosingOf(d)) = d
         /\ Closes > Opens => OpeningOf(d) < ClosingOf(d)
         /\ ~(Closes > Opens) => ClosingOf(d) <= OpeningOf(d)
<1>1. Day \in Nat \ {0} /\ d * Day \in Nat
  BY CalendarAssumption, DaysApart
<1>2. Opens \in Nat /\ Opens < Day /\ Closes \in Nat /\ Closes < Day
  BY <1>1, HoursOfDay
<1>3. OpeningOf(d) = d * Day + Opens /\ ClosingOf(d) = d * Day + Closes
  BY DEF OpeningOf, ClosingOf
<1>4. /\ OpeningOf(d) \in Nat /\ ClosingOf(d) \in Nat
      /\ d * Day <= OpeningOf(d) /\ OpeningOf(d) < d * Day + Day
      /\ d * Day <= ClosingOf(d) /\ ClosingOf(d) < d * Day + Day
      /\ Closes > Opens => OpeningOf(d) < ClosingOf(d)
      /\ ~(Closes > Opens) => ClosingOf(d) <= OpeningOf(d)
  BY <1>1, <1>2, <1>3
<1>5. DayOf(OpeningOf(d)) = d /\ DayOf(ClosingOf(d)) = d
  BY <1>4, DayIs
<1>6. QED
  BY <1>4, <1>5

LEMMA ServiceIs ==
  ASSUME config \in Definitions, config.calendar # None, NEW t \in Nat
  PROVE  InService(t) <=> /\ OpenDay(DayOf(t))
                          /\ OpeningOf(DayOf(t)) <= t /\ t < ClosingOf(DayOf(t))
<1>1. Day \in Nat \ {0}
  BY CalendarAssumption
<1>2. DayOf(t) * Day \in Nat /\ t = DayOf(t) * Day + (t % Day) /\ t % Day \in Nat
  BY DayDivides, DaysApart
<1>3. Opens \in Nat /\ Closes \in Nat
  BY <1>1, HoursOfDay
<1>4. t % Day \in Opens..Closes - 1
         <=> DayOf(t) * Day + Opens <= t /\ t < DayOf(t) * Day + Closes
  BY <1>2, <1>3
<1>5. QED
  BY <1>4 DEF InService, OpeningOf, ClosingOf

-----------------------------------------------------------------------------
(* The search for the next opening                                         *)

LEMMA LeastMember ==
  ASSUME NEW T \in SUBSET Nat, T # {}
  PROVE  Min(T) \in T /\ \A k \in T : Min(T) <= k
<1>1. PICK m \in T : \A k \in T : ~ (<<k, m>> \in OpToRel(<, Nat))
  BY NatLessThanWellFounded, WFMin, Zenon
<1>2. \A k \in T : ~(k < m)
  BY <1>1 DEF OpToRel
<1>3. \E n \in T : \A k \in T : n <= k
  BY <1>2
<1>4. QED
  BY <1>3 DEF Min

LEMMA GreaterOfTwo ==
  ASSUME NEW a \in Int, NEW b \in Int
  PROVE  Max({a, b}) = IF a >= b THEN a ELSE b
<1> DEFINE g == IF a >= b THEN a ELSE b
<1>1. g \in {a, b} /\ \A x \in {a, b} : g >= x
  OBVIOUS
<1>2. \A h \in {a, b} : (\A x \in {a, b} : h >= x) => h = g
  OBVIOUS
<1>3. Max({a, b}) \in {a, b} /\ \A x \in {a, b} : Max({a, b}) >= x
  BY <1>1 DEF Max
<1>4. QED
  BY <1>2, <1>3

Ahead(t) == {d \in DayOf(t)..DayOf(t) + Horizon - 1 :
                OpenDay(d) /\ (d = DayOf(t) => t < OpeningOf(d) \/ t < ClosingOf(d))}

LEMMA NothingFound ==
  ASSUME config \in Definitions, config.calendar # None, NEW t \in Nat, Ahead(t) = {}
  PROVE  /\ NextOpen(t) = t /\ NothingAhead(t)
         /\ OpenDay(DayOf(t)) => t >= OpeningOf(DayOf(t)) /\ t >= ClosingOf(DayOf(t))
<1>1. DayOf(t) \in Nat /\ Horizon \in Nat \ {0}
  BY CalendarAssumption, DayDivides
<1>2. ASSUME NEW d \in DayOf(t)..DayOf(t) + Horizon - 1, OpenDay(d)
      PROVE  d = DayOf(t) /\ t >= OpeningOf(d) /\ t >= ClosingOf(d)
  <2>1. d = DayOf(t) /\ ~(t < OpeningOf(d)) /\ ~(t < ClosingOf(d))
    BY <1>2 DEF Ahead
  <2>2. OpeningOf(d) \in Nat /\ ClosingOf(d) \in Nat
    BY <1>1, <2>1, DayOfHours
  <2>3. QED
    BY <2>1, <2>2
<1>3. DayOf(t) \in DayOf(t)..DayOf(t) + Horizon - 1
  BY <1>1
<1>4. QED
  BY <1>2, <1>3 DEF NextOpen, NothingAhead, Ahead

LEMMA DayFound ==
  ASSUME config \in Definitions, config.calendar # None, NEW t \in Nat, Ahead(t) # {}
  PROVE  \E d \in Nat :
            /\ OpenDay(d) /\ DayOf(t) <= d /\ DayOf(NextOpen(t)) = d
            /\ NextOpen(t) \in Nat /\ NextOpen(t) >= t /\ NextOpen(t) >= OpeningOf(d)
            /\ Closes > Opens => NextOpen(t) < ClosingOf(d)
            /\ NextOpen(t) = t \/ NextOpen(t) = OpeningOf(d)
            /\ \A e \in DayOf(t)..d : OpenDay(e) /\ (e = DayOf(t) => t < ClosingOf(e)) => e = d
<1>1. DayOf(t) \in Nat /\ Horizon \in Nat \ {0}
  BY CalendarAssumption, DayDivides
<1>2. Ahead(t) \in SUBSET Nat
  BY <1>1 DEF Ahead
<1>3. PICK d \in Ahead(t) : d = Min(Ahead(t)) /\ \A k \in Ahead(t) : d <= k
  BY <1>2, LeastMember
<1>4. /\ d \in Nat /\ OpenDay(d) /\ DayOf(t) <= d /\ d <= DayOf(t) + Horizon - 1
      /\ d = DayOf(t) => t < OpeningOf(d) \/ t < ClosingOf(d)
  BY <1>1, <1>2, <1>3 DEF Ahead
<1>5. /\ OpeningOf(d) \in Nat /\ ClosingOf(d) \in Nat
      /\ d * Day <= OpeningOf(d) /\ OpeningOf(d) < d * Day + Day
      /\ ClosingOf(d) < d * Day + Day
      /\ DayOf(OpeningOf(d)) = d
      /\ Closes > Opens => OpeningOf(d) < ClosingOf(d)
      /\ d * Day \in Nat
  BY <1>4, DayOfHours, DaysApart
<1>6. NextOpen(t) = Max({t, OpeningOf(d)})
  BY <1>3 DEF NextOpen, Ahead
<1>7. NextOpen(t) = IF t >= OpeningOf(d) THEN t ELSE OpeningOf(d)
  BY <1>5, <1>6, GreaterOfTwo
<1>8. t >= OpeningOf(d) => DayOf(t) = d
  <2>1. ASSUME DayOf(t) < d
        PROVE  t < OpeningOf(d)
    <3>1. DayOf(t) * Day + Day <= d * Day /\ t < DayOf(t) * Day + Day
          /\ DayOf(t) * Day \in Nat
      BY <1>1, <1>4, <2>1, DaysApart, DayDivides
    <3>2. QED
      BY <1>5, <3>1, CalendarAssumption
  <2>2. QED
    BY <1>1, <1>4, <1>5, <2>1
<1>9. /\ DayOf(NextOpen(t)) = d /\ NextOpen(t) \in Nat /\ NextOpen(t) >= t
      /\ NextOpen(t) >= OpeningOf(d)
      /\ NextOpen(t) = t \/ NextOpen(t) = OpeningOf(d)
  BY <1>5, <1>7, <1>8
<1>10. Closes > Opens => NextOpen(t) < ClosingOf(d)
  BY <1>4, <1>5, <1>7, <1>8
<1>11. ASSUME NEW e \in DayOf(t)..d, OpenDay(e), e = DayOf(t) => t < ClosingOf(e)
       PROVE  e = d
  <2>1. e \in DayOf(t)..DayOf(t) + Horizon - 1
    BY <1>1, <1>4
  <2>2. e \in Ahead(t)
    BY <1>11, <2>1 DEF Ahead
  <2>3. d <= e /\ e <= d /\ e \in Nat
    BY <1>1, <1>3, <1>4, <2>2
  <2>4. QED
    BY <1>4, <2>3
<1>12. QED
  BY <1>4, <1>9, <1>10, <1>11

(* _next_open gives a moment that is not before t, with no service in      *)
(* between.                                                                *)
LEMMA NextOpenFinds ==
  ASSUME config \in Definitions, config.calendar # None, NEW t \in Nat,
         NEW n, n = NextOpen(t)
  PROVE  /\ n \in Nat /\ n >= t
         /\ OpenDay(DayOf(n)) => n >= OpeningOf(DayOf(n))
         /\ \A i \in t..n - 1 : ~InService(i)
         /\ Closes > Opens =>
               \/ n = t /\ NothingAhead(t)
               \/ OpenDay(DayOf(n)) /\ n < ClosingOf(DayOf(n))
<1>1. CASE Ahead(t) = {}
  <2>1. n = t /\ NothingAhead(t) /\ (OpenDay(DayOf(t)) => t >= OpeningOf(DayOf(t)))
    BY <1>1, NothingFound
  <2>2. QED
    BY <2>1
<1>2. CASE Ahead(t) # {}
  <2>1. PICK d \in Nat :
            /\ OpenDay(d) /\ DayOf(t) <= d /\ DayOf(n) = d
            /\ n \in Nat /\ n >= t /\ n >= OpeningOf(d)
            /\ Closes > Opens => n < ClosingOf(d)
            /\ n = t \/ n = OpeningOf(d)
            /\ \A e \in DayOf(t)..d : OpenDay(e) /\ (e = DayOf(t) => t < ClosingOf(e)) => e = d
    BY <1>2, DayFound
  <2>2. ASSUME NEW i \in t..n - 1, InService(i)
        PROVE  FALSE
    <3>1. i \in Nat /\ t <= i /\ i < n
      BY <2>1, <2>2
    <3>2. OpenDay(DayOf(i)) /\ OpeningOf(DayOf(i)) <= i /\ i < ClosingOf(DayOf(i))
      BY <2>2, <3>1, ServiceIs
    <3>3. DayOf(t) <= DayOf(i) /\ DayOf(i) <= d
      BY <2>1, <3>1, DaysInOrder
    <3>4. DayOf(i) \in Nat /\ DayOf(t) \in Nat
      BY <3>1, DayDivides
    <3>5. DayOf(i) \in DayOf(t)..d
      BY <3>3, <3>4
    <3>6. ClosingOf(DayOf(i)) \in Nat /\ OpeningOf(d) \in Nat
      BY <2>1, <3>4, DayOfHours
    <3>7. t < ClosingOf(DayOf(i))
      BY <3>1, <3>2, <3>6
    <3>8. DayOf(i) = d
      BY <2>1, <3>2, <3>5, <3>7
    <3>9. QED
      BY <2>1, <3>1, <3>2, <3>6, <3>8
  <2>3. QED
    BY <2>1, <2>2
<1>3. QED
  BY <1>1, <1>2

-----------------------------------------------------------------------------
(* Counting the service                                                    *)

LEMMA ServedQuiet ==
  ASSUME NEW f \in Nat, NEW t \in Nat, NEW u \in Nat, t <= u,
         \A i \in t..u - 1 : ~InService(i)
  PROVE  Served(f, u) = Served(f, t)
<1>1. ASSUME NEW i \in Served(f, u)
      PROVE  i \in Served(f, t)
  <2>1. i \in Nat /\ f <= i /\ i < u /\ InService(i)
    BY DEF Served
  <2>2. i < t
    BY <2>1
  <2>3. QED
    BY <2>1, <2>2 DEF Served
<1>2. ASSUME NEW i \in Served(f, t)
      PROVE  i \in Served(f, u)
  BY <1>2 DEF Served
<1>3. QED
  BY <1>1, <1>2

LEMMA ServedFull ==
  ASSUME NEW f \in Nat, NEW t \in Nat, NEW u \in Nat, f <= t, t <= u,
         \A i \in t..u - 1 : InService(i)
  PROVE  Cardinality(Served(f, u)) = Cardinality(Served(f, t)) + (u - t)
<1> DEFINE A == Served(f, t)
           B == t..u - 1
<1>1. A \subseteq f..t - 1 /\ A \cap B = {} /\ Served(f, u) = A \cup B
  <2>1. A \subseteq f..t - 1 /\ A \cap B = {}
    BY DEF Served
  <2>2. Served(f, u) \subseteq A \cup B
    BY DEF Served
  <2>3. A \cup B \subseteq Served(f, u)
    BY DEF Served
  <2>4. Served(f, u) = A \cup B
    BY <2>2, <2>3
  <2>5. QED
    BY <2>1, <2>4
<1>2. IsFiniteSet(A)
  BY <1>1, FS_Interval, FS_Subset
<1>3. IsFiniteSet(B) /\ Cardinality(B) = u - t
  <2>1. IsFiniteSet(B) /\ Cardinality(B) = IF t > u - 1 THEN 0 ELSE (u - 1) - t + 1
    BY FS_Interval
  <2>2. QED
    BY <2>1
<1> HIDE DEF A, B
<1>4. Cardinality(A \cup B) = Cardinality(A) + Cardinality(B) - Cardinality(A \cap B)
  BY <1>2, <1>3, FS_Union
<1>5. Cardinality(A \cap B) = 0 /\ Cardinality(A) \in Nat
  BY <1>1, <1>2, FS_EmptySet, FS_CardinalityType
<1>6. QED
  BY <1>1, <1>3, <1>4, <1>5 DEF A

LEMMA ServedNothing ==
  ASSUME NEW t \in Nat
  PROVE  Cardinality(Served(t, t)) = 0
<1>1. Served(t, t) = {}
  BY DEF Served
<1>2. QED
  BY <1>1, FS_EmptySet

LEMMA WithinService ==
  ASSUME config \in Definitions, config.calendar # None, NEW d \in Nat, OpenDay(d),
         NEW i \in Nat, OpeningOf(d) <= i, i < ClosingOf(d)
  PROVE  InService(i)
<1>1. DayOf(i) = d
  BY DayOfHours, DayIs, DaysApart, CalendarAssumption
<1>2. QED
  BY <1>1, ServiceIs

LEMMA AfterClosing ==
  ASSUME config \in Definitions, config.calendar # None, NEW d \in Nat,
         NEW i \in Nat, ClosingOf(d) <= i, DayOf(i) = d
  PROVE  ~InService(i)
<1>1. ClosingOf(d) \in Nat
  BY DayOfHours
<1>2. QED
  BY <1>1, ServiceIs

(* Where a calculation stands after the search.                            *)
LEMMA StandsAfterSearch ==
  ASSUME config \in Definitions, config.calendar # None, Closes > Opens,
         NEW t \in Nat, NEW r \in Calculation, r.local = NextOpen(t),
         DayOf(r.from) <= DayOf(r.local),
         (OpenDay(DayOf(r.local)) /\ r.local >= ClosingOf(DayOf(r.local))) \/ r.from <= r.local
  PROVE  Stands(r)
<1>1. PICK n : n = r.local
  OBVIOUS
<1>2. /\ n \in Nat
      /\ \/ n = t /\ NothingAhead(t)
         \/ OpenDay(DayOf(n)) /\ n < ClosingOf(DayOf(n))
  BY <1>1, NextOpenFinds
<1>3. DayOf(n) \in Nat /\ ClosingOf(DayOf(n)) \in Nat
  BY <1>2, DayDivides, DayOfHours
<1>4. CASE OpenDay(DayOf(n)) /\ n < ClosingOf(DayOf(n))
  BY <1>1, <1>2, <1>3, <1>4 DEF Stands
<1>5. CASE n = t /\ NothingAhead(t) /\ ~OpenDay(DayOf(n))
  BY <1>1, <1>5 DEF Stands
<1>6. CASE n = t /\ NothingAhead(t) /\ OpenDay(DayOf(n))
  <2>1. DayOf(n) \in DayOf(n)..DayOf(n) + Horizon - 1
    BY <1>3, CalendarAssumption
  <2>2. n >= ClosingOf(DayOf(n))
    BY <1>6, <2>1 DEF NothingAhead
  <2>3. QED
    BY <1>1, <1>6, <2>2 DEF Stands
<1>7. QED
  BY <1>2, <1>4, <1>5, <1>6

-----------------------------------------------------------------------------
(* The steps of the calculation                                            *)

LEMMA BeginGives ==
  ASSUME config \in Definitions, NEW from \in Starts, NEW hours \in Hours,
         BeginDeadline(from, hours), NEW r, r = deadline'
  PROVE  RecordOK(r)
<1>1. from \in Nat /\ hours \in Nat \ {0} /\ None \notin Nat
  BY CalendarAssumption
<1>2. r = [from |-> from, hours |-> hours, remaining |-> hours,
           local |-> IF config.calendar = None THEN from ELSE NextOpen(from),
           due |-> IF config.calendar = None THEN from + hours ELSE None]
  BY DEF BeginDeadline
<1>3. CASE config.calendar = None
  <2>1. r \in Calculation /\ r.due = from + hours /\ r.from = from /\ r.hours = hours
        /\ r.due # None
    BY <1>1, <1>2, <1>3 DEF Calculation
  <2>2. \A i : InService(i)
    BY <1>3 DEF InService
  <2>3. Cardinality(Served(from, from + hours)) = Cardinality(Served(from, from)) + hours
    <3>1. (from + hours) - from = hours /\ from + hours \in Nat /\ from <= from + hours
      BY <1>1
    <3>2. QED
      BY <1>1, <2>2, <3>1, ServedFull
  <2>4. Cardinality(Served(from, from + hours)) = hours
    BY <1>1, <2>3, ServedNothing
  <2>5. QED
    BY <2>1, <2>2, <2>4 DEF RecordOK, Exact
<1>4. CASE config.calendar # None
  <2>1. PICK n : n = NextOpen(from)
    OBVIOUS
  <2>2. /\ n \in Nat /\ n >= from
        /\ OpenDay(DayOf(n)) => n >= OpeningOf(DayOf(n))
        /\ \A i \in from..n - 1 : ~InService(i)
    BY <1>1, <1>4, <2>1, NextOpenFinds
  <2>3. /\ r \in Calculation /\ r.due = None /\ r.from = from /\ r.hours = hours
        /\ r.remaining = hours /\ r.local = n
    BY <1>1, <1>2, <1>4, <2>1, <2>2 DEF Calculation
  <2>4. Accounted(r)
    <3>1. Served(from, n) = Served(from, from)
      BY <1>1, <2>2, ServedQuiet
    <3>2. Cardinality(Served(from, n)) = 0
      BY <1>1, <3>1, ServedNothing
    <3>3. QED
      BY <1>1, <2>3, <3>2 DEF Accounted
  <2>5. Closes > Opens => Stands(r)
    <3>1. DayOf(from) <= DayOf(n)
      BY <1>1, <2>2, DaysInOrder
    <3>2. QED
      BY <1>1, <1>4, <2>1, <2>2, <2>3, <3>1, StandsAfterSearch
  <2>6. QED
    BY <1>4, <2>2, <2>3, <2>4, <2>5 DEF RecordOK, Running
<1>5. QED
  BY <1>3, <1>4

LEMMA SkipGives ==
  ASSUME config \in Definitions, deadline # None, RecordOK(deadline), SkipDay,
         NEW r, r = deadline'
  PROVE  RecordOK(r)
<1>1. PICK x : x = deadline.local
  OBVIOUS
<1>2. PICK n : n = NextOpen(x + Day)
  OBVIOUS
<1>3. /\ deadline \in Calculation /\ deadline.due = None /\ Running(deadline)
      /\ ~OpenDay(DayOf(x)) /\ x \in Nat /\ config.calendar # None
  BY <1>1 DEF SkipDay, Calculating, RecordOK, Running, Calculation
<1>4. r = [deadline EXCEPT !.local = n]
  BY <1>1, <1>2 DEF SkipDay
<1>5. x + Day \in Nat /\ Day \in Nat \ {0} /\ Horizon \in Nat \ {0, 1}
  BY <1>3, CalendarAssumption
<1>6. /\ n \in Nat /\ n >= x + Day
      /\ OpenDay(DayOf(n)) => n >= OpeningOf(DayOf(n))
      /\ \A i \in x + Day..n - 1 : ~InService(i)
  BY <1>2, <1>3, <1>5, NextOpenFinds
<1>7. /\ r \in Calculation /\ r.due = None /\ r.from = deadline.from /\ r.hours = deadline.hours
      /\ r.remaining = deadline.remaining /\ r.local = n
  BY <1>3, <1>4, <1>6 DEF Calculation
<1>8. ASSUME Closes > Opens
      PROVE  Stands(r) /\ Accounted(r)
  <2>1. deadline.from <= x /\ NothingAhead(x) /\ Accounted(deadline)
    BY <1>1, <1>3, <1>8 DEF Running, Stands
  <2>2. deadline.from \in Nat
    BY <1>3 DEF Calculation
  <2>3. ASSUME NEW i \in x..n - 1
        PROVE  ~InService(i)
    <3>1. i \in Nat /\ x <= i
      BY <1>3, <1>6, <2>3
    <3>2. CASE i >= x + Day
      BY <1>5, <1>6, <2>3, <3>1, <3>2
    <3>3. CASE i < x + Day
      <4>1. DayOf(x) <= DayOf(i) /\ DayOf(x) \in Nat /\ DayOf(i) \in Nat
        BY <1>3, <3>1, DaysInOrder, DayDivides
      <4>2. ~(DayOf(x) + 1 < DayOf(i))
        <5>1. SUFFICES ASSUME DayOf(x) + 1 < DayOf(i)
                       PROVE  FALSE
          OBVIOUS
        <5>2. DayOf(x) * Day + Day <= (DayOf(x) + 1) * Day
          BY <4>1, DaysApart
        <5>3. (DayOf(x) + 1) * Day + Day <= DayOf(i) * Day
          BY <4>1, <5>1, DaysApart
        <5>4. PICK p, q, s \in Nat :
                 p = DayOf(x) * Day /\ q = (DayOf(x) + 1) * Day /\ s = DayOf(i) * Day
          BY <4>1, DaysApart
        <5>5. x < p + Day /\ s <= i
          BY <1>3, <3>1, <5>4, DayDivides
        <5>6. p + Day <= q /\ q + Day <= s
          BY <5>2, <5>3, <5>4
        <5>7. QED
          BY <1>3, <1>5, <3>1, <3>3, <5>4, <5>5, <5>6
      <4>3. DayOf(i) \in DayOf(x)..DayOf(x) + Horizon - 1
        BY <1>5, <4>1, <4>2
      <4>4. ~OpenDay(DayOf(i))
        BY <1>3, <2>1, <4>3 DEF NothingAhead
      <4>5. QED
        BY <1>3, <3>1, <4>4, ServiceIs
    <3>4. QED
      BY <1>5, <3>1, <3>2, <3>3
  <2>4. x <= n
    BY <1>3, <1>5, <1>6
  <2>5. Served(deadline.from, n) = Served(deadline.from, x)
    BY <1>3, <1>6, <2>2, <2>3, <2>4, ServedQuiet
  <2>6. Accounted(r)
    BY <1>1, <1>7, <2>1, <2>5 DEF Accounted
  <2>7. deadline.from <= n
    BY <1>3, <1>6, <2>1, <2>2, <2>4
  <2>8. DayOf(deadline.from) <= DayOf(n)
    BY <1>6, <2>2, <2>7, DaysInOrder
  <2>9. Stands(r)
    BY <1>2, <1>3, <1>5, <1>7, <1>8, <2>7, <2>8, StandsAfterSearch
  <2>10. QED
    BY <2>6, <2>9
<1>9. QED
  BY <1>3, <1>6, <1>7, <1>8 DEF RecordOK, Running

LEMMA FinishGives ==
  ASSUME config \in Definitions, deadline # None, RecordOK(deadline), FinishDeadline,
         NEW r, r = deadline'
  PROVE  RecordOK(r)
<1>1. PICK x : x = deadline.local
  OBVIOUS
<1>2. PICK k : k = deadline.remaining
  OBVIOUS
<1>3. PICK d : d = DayOf(x)
  OBVIOUS
<1>4. /\ deadline \in Calculation /\ deadline.due = None /\ Running(deadline)
      /\ x \in Nat /\ k \in Nat \ {0} /\ deadline.from \in Nat /\ config.calendar # None
  BY <1>1, <1>2 DEF FinishDeadline, Calculating, RecordOK, Running, Calculation
<1>5. OpenDay(d) /\ k <= ClosingOf(d) - x /\ r = [deadline EXCEPT !.due = x + k]
  BY <1>1, <1>2, <1>3 DEF FinishDeadline, Available
<1>6. d \in Nat /\ OpeningOf(d) \in Nat /\ ClosingOf(d) \in Nat
      /\ (~(Closes > Opens) => ClosingOf(d) <= OpeningOf(d))
  BY <1>3, <1>4, DayDivides, DayOfHours
<1>7. x >= OpeningOf(d)
  BY <1>1, <1>3, <1>4, <1>5 DEF Running
<1>8. x + k <= ClosingOf(d) /\ x < ClosingOf(d)
  BY <1>4, <1>5, <1>6
<1>9. Closes > Opens
  BY <1>4, <1>6, <1>7, <1>8
<1>10. deadline.from <= x /\ Accounted(deadline)
  <2>1. ~(x >= ClosingOf(d))
    BY <1>4, <1>6, <1>8
  <2>2. QED
    BY <1>1, <1>3, <1>4, <1>5, <1>9, <2>1 DEF Running, Stands
<1>11. \A i \in x..(x + k) - 1 : InService(i)
  <2>1. TAKE i \in x..(x + k) - 1
  <2>2. i \in Nat /\ OpeningOf(d) <= i /\ i < ClosingOf(d)
    BY <1>4, <1>6, <1>7, <1>8
  <2>3. QED
    BY <1>4, <1>5, <1>6, <2>2, WithinService
<1>12. Cardinality(Served(deadline.from, x + k)) = Cardinality(Served(deadline.from, x)) + k
  <2>1. (x + k) - x = k /\ x + k \in Nat /\ x <= x + k
    BY <1>4
  <2>2. QED
    BY <1>4, <1>10, <1>11, <2>1, ServedFull
<1>13. /\ r \in Calculation /\ r.due = x + k /\ r.from = deadline.from
       /\ r.hours = deadline.hours /\ r.due # None
  BY <1>4, <1>5, CalendarAssumption DEF Calculation
<1>14. Cardinality(Served(deadline.from, x + k)) = deadline.hours
  BY <1>1, <1>2, <1>10, <1>12 DEF Accounted
<1>15. InService((x + k) - 1)
  BY <1>4, <1>11
<1>16. QED
  BY <1>13, <1>14, <1>15 DEF RecordOK, Exact

LEMMA SpendGives ==
  ASSUME config \in Definitions, deadline # None, RecordOK(deadline), SpendDay,
         NEW r, r = deadline'
  PROVE  RecordOK(r)
<1>1. PICK x : x = deadline.local
  OBVIOUS
<1>2. PICK k : k = deadline.remaining
  OBVIOUS
<1>3. PICK d : d = DayOf(x)
  OBVIOUS
<1>4. PICK t : t = ClosingOf(d) + 1
  OBVIOUS
<1>5. PICK n : n = NextOpen(t)
  OBVIOUS
<1>6. PICK m : m = k - Max({ClosingOf(d) - x, 0})
  OBVIOUS
<1>7. /\ deadline \in Calculation /\ deadline.due = None /\ Running(deadline)
      /\ x \in Nat /\ k \in Nat \ {0} /\ deadline.from \in Nat /\ config.calendar # None
  BY <1>1, <1>2 DEF SpendDay, Calculating, RecordOK, Running, Calculation
<1>8. OpenDay(d) /\ k > ClosingOf(d) - x
  BY <1>1, <1>2, <1>3 DEF SpendDay, Available
<1>9. r = [deadline EXCEPT !.remaining = m, !.local = n]
  BY <1>1, <1>2, <1>3, <1>4, <1>5, <1>6 DEF SpendDay, Available
<1>10. /\ d \in Nat /\ OpeningOf(d) \in Nat /\ ClosingOf(d) \in Nat /\ t \in Nat
       /\ ClosingOf(d) < d * Day + Day /\ d * Day \in Nat /\ d * Day <= OpeningOf(d)
       /\ DayOf(ClosingOf(d)) = d
  <2>1. d \in Nat /\ d * Day \in Nat
    BY <1>3, <1>7, DayDivides
  <2>2. /\ OpeningOf(d) \in Nat /\ ClosingOf(d) \in Nat
        /\ ClosingOf(d) < d * Day + Day /\ d * Day <= OpeningOf(d)
        /\ DayOf(ClosingOf(d)) = d
    BY <1>7, <2>1, DayOfHours
  <2>3. QED
    BY <1>4, <2>1, <2>2
<1>11. m = IF x < ClosingOf(d) THEN k - (ClosingOf(d) - x) ELSE k
  BY <1>6, <1>7, <1>10, GreaterOfTwo
<1>12. m \in Nat \ {0}
  BY <1>7, <1>8, <1>10, <1>11
<1>13. /\ n \in Nat /\ n >= t
       /\ OpenDay(DayOf(n)) => n >= OpeningOf(DayOf(n))
       /\ \A i \in t..n - 1 : ~InService(i)
  BY <1>5, <1>7, <1>10, NextOpenFinds
<1>14. /\ r \in Calculation /\ r.due = None /\ r.from = deadline.from
       /\ r.hours = deadline.hours /\ r.remaining = m /\ r.local = n
  BY <1>7, <1>9, <1>12, <1>13 DEF Calculation
<1>15. x >= OpeningOf(d)
  BY <1>1, <1>3, <1>7, <1>8 DEF Running
<1>16. ASSUME Closes > Opens
       PROVE  Stands(r) /\ Accounted(r)
  <2>1. Accounted(deadline) /\ Stands(deadline)
    BY <1>7, <1>16 DEF Running
  <2>2. Served(deadline.from, n) = Served(deadline.from, ClosingOf(d))
    <3>1. ASSUME NEW i \in ClosingOf(d)..n - 1
          PROVE  ~InService(i)
      <4>1. i \in Nat /\ (i = ClosingOf(d) \/ i \in t..n - 1)
        BY <1>4, <1>10, <1>13, <3>1
      <4>2. i = ClosingOf(d) => ~InService(i)
        BY <1>7, <1>10, AfterClosing
      <4>3. QED
        BY <1>13, <4>1, <4>2
    <3>2. ClosingOf(d) <= n
      BY <1>4, <1>10, <1>13
    <3>3. QED
      BY <1>7, <1>10, <1>13, <3>1, <3>2, ServedQuiet
  <2>3. d <= DayOf(n) /\ DayOf(n) \in Nat /\ DayOf(deadline.from) \in Nat
    <3>1. ClosingOf(d) <= n
      BY <1>4, <1>10, <1>13
    <3>2. DayOf(ClosingOf(d)) <= DayOf(n)
      BY <1>10, <1>13, <3>1, DaysInOrder
    <3>3. DayOf(n) \in Nat /\ DayOf(deadline.from) \in Nat
      BY <1>7, <1>13, DayDivides
    <3>4. QED
      BY <1>10, <3>2, <3>3
  <2>4. DayOf(deadline.from) <= d
    <3>1. deadline.from <= x => DayOf(deadline.from) <= d
      BY <1>3, <1>7, DaysInOrder
    <3>2. QED
      BY <1>1, <1>3, <2>1, <3>1 DEF Stands
  <2>5. CASE x < ClosingOf(d)
    <3>1. deadline.from <= x
      <4>1. ~(x >= ClosingOf(d))
        BY <1>7, <1>10, <2>5
      <4>2. QED
        BY <1>1, <1>3, <1>8, <2>1, <4>1 DEF Stands
    <3>2. \A i \in x..ClosingOf(d) - 1 : InService(i)
      <4>1. TAKE i \in x..ClosingOf(d) - 1
      <4>2. i \in Nat /\ OpeningOf(d) <= i /\ i < ClosingOf(d)
        BY <1>7, <1>10, <1>15
      <4>3. QED
        BY <1>7, <1>8, <1>10, <4>2, WithinService
    <3>3. Cardinality(Served(deadline.from, ClosingOf(d)))
             = Cardinality(Served(deadline.from, x)) + (ClosingOf(d) - x)
      BY <1>7, <1>10, <2>5, <3>1, <3>2, ServedFull
    <3>4. Cardinality(Served(deadline.from, x)) \in Nat
      <4>1. Served(deadline.from, x) \subseteq deadline.from..x - 1
        BY DEF Served
      <4>2. QED
        <5>1. deadline.from \in Int /\ x - 1 \in Int
          BY <1>7
        <5>2. IsFiniteSet(deadline.from..x - 1)
          BY <5>1, FS_Interval
        <5>3. IsFiniteSet(Served(deadline.from, x))
          BY <4>1, <5>2, FS_Subset
        <5>4. QED
          BY <5>3, FS_CardinalityType
    <3>5. Accounted(r)
      <4>1. Cardinality(Served(deadline.from, x)) + k = deadline.hours
        BY <1>1, <1>2, <2>1 DEF Accounted
      <4>2. m = k - (ClosingOf(d) - x)
        BY <1>11, <2>5
      <4>3. Cardinality(Served(deadline.from, n)) + m = deadline.hours
        BY <1>7, <1>10, <2>2, <3>3, <3>4, <4>1, <4>2
      <4>4. QED
        BY <1>14, <4>3 DEF Accounted
    <3>6. r.from <= r.local
      BY <1>4, <1>7, <1>10, <1>13, <1>14, <2>5, <3>1
    <3>7. DayOf(r.from) <= DayOf(r.local)
      BY <1>10, <1>14, <2>3, <2>4
    <3>8. Stands(r)
      BY <1>5, <1>7, <1>10, <1>14, <1>16, <3>6, <3>7, StandsAfterSearch
    <3>9. QED
      BY <3>5, <3>8
  <2>6. CASE x >= ClosingOf(d)
    <3>1. Served(deadline.from, x) = Served(deadline.from, ClosingOf(d))
      <4>1. ASSUME NEW i \in ClosingOf(d)..x - 1
            PROVE  ~InService(i)
        <5>1. i \in Nat /\ ClosingOf(d) <= i /\ i <= x
          BY <1>7, <1>10, <4>1
        <5>2. d <= DayOf(i) /\ DayOf(i) <= d /\ DayOf(i) \in Nat
          BY <1>3, <1>7, <1>10, <5>1, DaysInOrder, DayDivides
        <5>3. DayOf(i) = d
          BY <1>10, <5>2
        <5>4. QED
          BY <1>7, <1>10, <5>1, <5>3, AfterClosing
      <4>2. QED
        BY <1>7, <1>10, <2>6, <4>1, ServedQuiet
    <3>2. m = k
      BY <1>7, <1>10, <1>11, <2>6
    <3>3. Accounted(r)
      BY <1>1, <1>2, <1>14, <2>1, <2>2, <3>1, <3>2 DEF Accounted
    <3>4. DayOf(r.from) <= DayOf(r.local)
      BY <1>10, <1>14, <2>3, <2>4
    <3>5. (OpenDay(DayOf(n)) /\ n >= ClosingOf(DayOf(n))) \/ deadline.from <= n
      <4>1. CASE DayOf(n) = d
        <5>1. n >= ClosingOf(d)
          BY <1>4, <1>10, <1>13
        <5>2. QED
          BY <1>8, <4>1, <5>1
      <4>2. CASE DayOf(n) # d
        <5>1. ~(DayOf(n) <= DayOf(deadline.from))
          BY <1>10, <2>3, <2>4, <4>2
        <5>2. ~(n <= deadline.from)
          BY <1>7, <1>13, <5>1, DaysInOrder
        <5>3. QED
          BY <1>7, <1>13, <5>2
      <4>3. QED
        BY <4>1, <4>2
    <3>6. Stands(r)
      BY <1>5, <1>7, <1>10, <1>14, <1>16, <3>4, <3>5, StandsAfterSearch
    <3>7. QED
      BY <3>3, <3>6
  <2>7. QED
    BY <1>7, <1>10, <2>5, <2>6
<1>17. QED
  BY <1>7, <1>13, <1>14, <1>16 DEF RecordOK, Running

-----------------------------------------------------------------------------
(* The definition and its deadline                                         *)

LEMMA ConfigOfRecord ==
  ASSUME config' = config
  PROVE  \A r : RecordOK(r)' <=> RecordOK(r)
<1>1. /\ \A d : OpenDay(d)' <=> OpenDay(d)
      /\ \A d : OpeningOf(d)' = OpeningOf(d) /\ ClosingOf(d)' = ClosingOf(d)
      /\ Opens' = Opens /\ Closes' = Closes
  BY DEF OpenDay, OpeningOf, ClosingOf, Opens, Closes
<1>2. \A i : InService(i)' <=> InService(i)
  BY <1>1 DEF InService
<1>3. \A t, u : Served(t, u)' = Served(t, u)
  BY <1>2 DEF Served
<1>4. \A t : NothingAhead(t)' <=> NothingAhead(t)
  BY <1>1 DEF NothingAhead
<1>5. \A r : /\ Stands(r)' <=> Stands(r)
             /\ Accounted(r)' <=> Accounted(r)
             /\ Exact(r)' <=> Exact(r)
  BY <1>1, <1>2, <1>3, <1>4 DEF Stands, Accounted, Exact
<1>6. \A r : Running(r)' <=> Running(r)
  BY <1>1, <1>5 DEF Running
<1>7. QED
  BY <1>5, <1>6 DEF RecordOK

(* Deadlines are calculated for accepted definitions only; r stands for    *)
(* the record itself, whatever the definition.                             *)
DefinitionInv ==
    /\ GraphInv
    /\ deadline # None => phase = "accepted" /\ \E r : r = deadline /\ RecordOK(r)

LEMMA DefinitionStep ==
  ASSUME DefinitionInv, [DefinitionNext]_allVars
  PROVE  DefinitionInv'
<1>1. [Next]_vars
  BY DEF DefinitionNext, allVars, BeginDeadline, SkipDay, SpendDay, FinishDeadline
<1>2. GraphInv'
  BY <1>1, GraphStep DEF DefinitionInv
<1>3. phase = "accepted" => UNCHANGED vars
  BY <1>1 DEF Next, CheckLists, VisitTargets, EndReach, VisitSources, EndFinish
<1>4. config \in Definitions
  BY DEF DefinitionInv, GraphInv, TypeOK
<1>5. ASSUME deadline' # None
      PROVE  phase' = "accepted" /\ \E r : r = deadline' /\ RecordOK(r)'
  <2>1. PICK r : r = deadline'
    OBVIOUS
  <2>2. CASE deadline' = deadline
    <3>1. phase = "accepted" /\ RecordOK(r)
      BY <1>5, <2>1, <2>2 DEF DefinitionInv
    <3>2. config' = config /\ phase' = "accepted"
      BY <1>3, <3>1 DEF vars
    <3>3. QED
      BY <2>1, <3>1, <3>2, ConfigOfRecord
  <2>3. CASE deadline' # deadline
    <3>1. \/ \E from \in Starts, hours \in Hours : BeginDeadline(from, hours)
          \/ SkipDay \/ SpendDay \/ FinishDeadline
      BY <2>3 DEF DefinitionNext, allVars
    <3>2. phase = "accepted" /\ UNCHANGED vars
      BY <3>1 DEF BeginDeadline, SkipDay, SpendDay, FinishDeadline, Calculating, DefinitionInv
    <3>3. SkipDay \/ SpendDay \/ FinishDeadline => deadline # None /\ RecordOK(deadline)
      BY DEF SkipDay, SpendDay, FinishDeadline, Calculating, DefinitionInv
    <3>4. RecordOK(r)
      BY <1>4, <2>1, <3>1, <3>3, BeginGives, SkipGives, SpendGives, FinishGives
    <3>5. QED
      BY <2>1, <3>2, <3>4, ConfigOfRecord DEF vars
  <2>4. QED
    BY <2>2, <2>3
<1>6. QED
  BY <1>2, <1>5 DEF DefinitionInv

LEMMA DefinitionInductive ==
  DefinitionSpec => []DefinitionInv
<1>1. DefinitionInit => DefinitionInv
  BY InitGraph DEF DefinitionInit, DefinitionInv
<1>2. DefinitionInv /\ [DefinitionNext]_allVars => DefinitionInv'
  BY DefinitionStep
<1>3. QED
  BY <1>1, <1>2, PTL DEF DefinitionSpec

(* Validation decides the same while deadlines are calculated.             *)
THEOREM DefinitionDecides ==
  DefinitionSpec => []ValidationIsRight
<1>1. DefinitionInv => ValidationIsRight
  BY GraphInvDecides DEF DefinitionInv
<1>2. QED
  BY <1>1, DefinitionInductive, PTL

(* Types, of which the deadline's are part of DefinitionInv.               *)
THEOREM DefinitionTyped ==
  DefinitionSpec => []TypeOK
<1>1. DefinitionInv => TypeOK
  BY DEF DefinitionInv, GraphInv
<1>2. QED
  BY <1>1, DefinitionInductive, PTL

(* Between the start and the deadline of add_service_hours lie exactly the *)
(* hours of service that were asked for, and the deadline is the end of    *)
(* the last of them: for every calendar, over nights, weekends and         *)
(* holidays.                                                               *)
THEOREM DeadlineExact ==
  DefinitionSpec => []DueIsExact
<1>1. ASSUME DefinitionInv
      PROVE  DueIsExact
  <2>1. SUFFICES ASSUME deadline # None, deadline.due # None
                 PROVE  /\ Cardinality({t \in deadline.from..deadline.due - 1 : InService(t)})
                              = deadline.hours
                        /\ InService(deadline.due - 1)
    BY DEF DueIsExact
  <2>2. RecordOK(deadline)
    BY <1>1, <2>1 DEF DefinitionInv
  <2>3. QED
    BY <2>1, <2>2 DEF RecordOK, Exact, Served
<1>2. QED
  BY <1>1, DefinitionInductive, PTL

-----------------------------------------------------------------------------
(* How long the two calls take                                             *)

(* The steps validation has left: each loop takes a stage off its list in  *)
(* every step and puts none on it twice, whatever cycles the graph has.    *)
Work(stages, found, list) == Cardinality(stages \ found) + Cardinality(list)

StepsLeft ==
    CASE phase = "lists"  -> 2 * Cardinality(StageKeys) + 3
      [] phase = "reach"  -> Work(StageKeys, reachable, pending) + Cardinality(StageKeys) + 2
      [] phase = "finish" -> Work(StageKeys, canFinish, pending) + 1
      [] OTHER            -> 0

Ended == phase \in {"accepted", "refused"}

LEMMA StagesFinite ==
  ASSUME config \in Definitions
  PROVE  /\ IsFiniteSet(StageKeys)
         /\ Cardinality(StageKeys) \in Nat /\ Cardinality(StageKeys) <= Len(config.stages)
<1> DEFINE D == 1..Len(config.stages)
           f == [i \in D |-> config.stages[i].key]
<1>1. config.stages \in Seq(Stage)
  BY DefinitionsAssumption DEF Definition
<1>2. Len(config.stages) \in Nat /\ DOMAIN config.stages = D
  BY <1>1
<1>3. IsFiniteSet(D) /\ Cardinality(D) = Len(config.stages)
  BY <1>2, FS_Interval
<1>4. f \in Surjection(D, StageKeys)
  BY <1>2 DEF Surjection, StageKeys
<1> HIDE DEF D, f
<1>5. IsFiniteSet(StageKeys) /\ Cardinality(StageKeys) <= Cardinality(D)
  BY <1>3, <1>4, FS_Surjection DEF ExistsSurjection
<1> QED BY <1>3, <1>5, FS_CardinalityType

(* Only stages are ever found.                                             *)
LEMMA FoundAreStages ==
  ASSUME GraphInv
  PROVE  /\ phase = "reach" => pending \subseteq reachable /\ reachable \subseteq StageKeys
         /\ phase = "finish" => pending \subseteq canFinish /\ canFinish \subseteq StageKeys
<1>1. config \in Definitions
  BY DEF GraphInv, TypeOK
<1>2. StageKeys \subseteq Keys /\ Terminals \subseteq StageKeys
  BY <1>1, ListedGraph
<1>3. ASSUME phase = "reach" PROVE reachable \subseteq StageKeys
  <2>1. SearchForwards /\ ListsOK
    BY <1>3 DEF GraphInv
  <2>2. config.initial \in StageKeys /\ \A e \in Edges : e[2] \in StageKeys
    BY <1>1, <2>1, ListedGraph
  <2>3. Closed(StageKeys)
    BY <2>2 DEF Closed
  <2> QED BY <1>2, <2>1, <2>2, <2>3 DEF SearchForwards
<1>4. ASSUME phase = "finish", NEW s \in canFinish PROVE s \in StageKeys
  <2>1. SearchBackwards /\ ListsOK /\ s \in Keys
    BY <1>4 DEF GraphInv, TypeOK
  <2>2. \A e \in Edges : e[1] \in StageKeys
    BY <1>1, <2>1, ListedGraph
  <2>3. s \notin StageKeys => Closed({s})
    BY <2>2 DEF Closed
  <2>4. Closed({s}) => {s} \cap Terminals # {}
    BY <1>4, <2>1 DEF SearchBackwards
  <2> QED BY <1>2, <2>3, <2>4
<1> QED BY <1>3, <1>4 DEF GraphInv, SearchForwards, SearchBackwards

LEMMA SplitCount ==
  ASSUME NEW K, IsFiniteSet(K), NEW T \in SUBSET K
  PROVE  /\ IsFiniteSet(T) /\ IsFiniteSet(K \ T)
         /\ Cardinality(T) \in Nat /\ Cardinality(K \ T) \in Nat
         /\ Cardinality(K \ T) + Cardinality(T) = Cardinality(K)
<1>1. IsFiniteSet(T)
  BY FS_Subset
<1>2. IsFiniteSet(K \ T) /\ Cardinality(K \ T) = Cardinality(K) - Cardinality(K \cap T)
  BY FS_Difference
<1>3. K \cap T = T
  OBVIOUS
<1>4. Cardinality(T) \in Nat /\ Cardinality(K) \in Nat /\ Cardinality(K \ T) \in Nat
  BY <1>1, <1>2, FS_CardinalityType
<1> QED BY <1>1, <1>2, <1>3, <1>4

(* A visit moves the stages it finds from those not found to the list, and *)
(* takes one off the list.                                                 *)
OneStageLess(stages, found, list, s, more) ==
    /\ Work(stages, found, list) \in Nat
    /\ Work(stages, found \cup more, (list \ {s}) \cup more) = Work(stages, found, list) - 1

LEMMA VisitCounts ==
  ASSUME NEW K, IsFiniteSet(K), NEW found, found \subseteq K, NEW list, list \subseteq found,
         NEW s, s \in list, NEW more, more \subseteq K \ found
  PROVE  OneStageLess(K, found, list, s, more)
<1> DEFINE rest == list \ {s}
<1>1. /\ IsFiniteSet(K \ found) /\ IsFiniteSet(list)
      /\ Cardinality(K \ found) \in Nat /\ Cardinality(list) \in Nat
  BY SplitCount, FS_Subset, FS_CardinalityType
<1>2. IsFiniteSet(rest) /\ Cardinality(rest) = Cardinality(list) - 1
  BY <1>1, FS_RemoveElement
<1>3. /\ IsFiniteSet(more) /\ Cardinality(more) \in Nat
      /\ Cardinality((K \ found) \ more) \in Nat
      /\ Cardinality((K \ found) \ more) + Cardinality(more) = Cardinality(K \ found)
  BY <1>1, SplitCount
<1>4. (K \ found) \ more = K \ (found \cup more)
  OBVIOUS
<1>5. rest \cap more = {}
  OBVIOUS
<1> HIDE DEF rest
<1>6. Cardinality(rest \cup more) = Cardinality(rest) + Cardinality(more) - Cardinality(rest \cap more)
  BY <1>2, <1>3, FS_Union
<1>7. Cardinality(rest \cap more) = 0
  BY <1>5, FS_EmptySet
<1>8. Cardinality(rest \cup more) = Cardinality(list) - 1 + Cardinality(more)
  BY <1>1, <1>2, <1>3, <1>6, <1>7
<1>9. Cardinality(K \ (found \cup more)) = Cardinality(K \ found) - Cardinality(more)
  <2>1. Cardinality((K \ found) \ more) = Cardinality(K \ found) - Cardinality(more)
    BY <1>1, <1>3
  <2> QED BY <1>4, <2>1, Zenon
<1>10. Cardinality(K \ (found \cup more)) + Cardinality(rest \cup more)
          = Cardinality(K \ found) + Cardinality(list) - 1
  BY <1>1, <1>3, <1>8, <1>9
<1>11. Work(K, found \cup more, rest \cup more) = Work(K, found, list) - 1
  <2>1. /\ Cardinality(K \ (found \cup more)) \in Nat
        /\ Cardinality(rest \cup more) \in Nat
    BY <1>1, <1>2, <1>3, <1>4, FS_Union, FS_CardinalityType
  <2> QED BY <1>1, <1>10, <2>1 DEF Work
<1>12. Work(K, found, list) \in Nat
  BY <1>1 DEF Work
<1> QED BY <1>11, <1>12, Zenon DEF rest, OneStageLess

LEMMA StepsAreCounted ==
  ASSUME GraphInv
  PROVE  /\ StepsLeft \in Nat /\ StepsLeft <= 2 * Len(config.stages) + 3
         /\ StepsLeft = 0 <=> Ended
<1>1. /\ config \in Definitions
      /\ phase \in {"lists", "reach", "finish", "accepted", "refused"}
  BY DEF GraphInv, TypeOK
<1>2. PICK n \in Nat : n = Cardinality(StageKeys) /\ IsFiniteSet(StageKeys) /\ n <= Len(config.stages)
  BY <1>1, StagesFinite
<1>3. Len(config.stages) \in Nat
  BY <1>1, DefinitionsAssumption DEF Definition
<1>4. ASSUME NEW found \in SUBSET StageKeys, pending \subseteq found
      PROVE  Work(StageKeys, found, pending) \in Nat /\ Work(StageKeys, found, pending) <= n
  <2>1. /\ IsFiniteSet(found) /\ Cardinality(found) \in Nat /\ Cardinality(StageKeys \ found) \in Nat
        /\ Cardinality(StageKeys \ found) + Cardinality(found) = n
    BY <1>2, SplitCount
  <2>2. Cardinality(pending) \in Nat /\ Cardinality(pending) <= Cardinality(found)
    <3>1. IsFiniteSet(pending) /\ Cardinality(pending) <= Cardinality(found)
      BY <1>4, <2>1, FS_Subset
    <3> QED BY <3>1, FS_CardinalityType
  <2> QED BY <2>1, <2>2 DEF Work
<1>5. CASE phase = "reach"
  <2>1. Work(StageKeys, reachable, pending) \in Nat /\ Work(StageKeys, reachable, pending) <= n
    BY <1>4, <1>5, FoundAreStages
  <2> QED BY <1>2, <1>3, <1>5, <2>1 DEF StepsLeft, Ended
<1>6. CASE phase = "finish"
  <2>1. Work(StageKeys, canFinish, pending) \in Nat /\ Work(StageKeys, canFinish, pending) <= n
    BY <1>4, <1>6, FoundAreStages
  <2> QED BY <1>2, <1>3, <1>6, <2>1 DEF StepsLeft, Ended
<1>7. CASE phase = "lists"
  BY <1>2, <1>3, <1>7 DEF StepsLeft, Ended
<1>8. CASE phase \in {"accepted", "refused"}
  BY <1>3, <1>8 DEF StepsLeft, Ended
<1> QED BY <1>1, <1>5, <1>6, <1>7, <1>8

LEMMA StepTaken ==
  ASSUME GraphInv, Next
  PROVE  StepsLeft' < StepsLeft
<1>0. StepsLeft \in Nat /\ (StepsLeft = 0 <=> Ended)
  BY StepsAreCounted
<1>1. config \in Definitions /\ config' = config /\ StageKeys' = StageKeys
  BY ConfigKept
  DEF GraphInv, TypeOK, Next, CheckLists, Refuse, VisitTargets, EndReach, VisitSources, EndFinish
<1>2. PICK n \in Nat : n = Cardinality(StageKeys) /\ IsFiniteSet(StageKeys)
  BY <1>1, StagesFinite
<1>3. ASSUME ~Ended, Ended' PROVE StepsLeft' < StepsLeft
  BY <1>0, <1>3 DEF StepsLeft, Ended
<1>4. CASE CheckLists /\ ~Ended'
  <2>1. phase = "lists" /\ phase' = "reach" /\ ListsOK
        /\ reachable' = {config.initial} /\ pending' = {config.initial}
    BY <1>4 DEF CheckLists, Refuse, Ended
  <2>2. config.initial \in StageKeys
    BY <1>1, <2>1, ListedGraph
  <2>3. /\ Cardinality(StageKeys \ {config.initial}) \in Nat
        /\ Cardinality({config.initial}) \in Nat
        /\ Cardinality(StageKeys \ {config.initial}) + Cardinality({config.initial}) = n
    BY <1>2, <2>2, SplitCount
  <2> QED BY <1>1, <1>2, <2>1, <2>3 DEF StepsLeft, Work
<1>5. ASSUME NEW s \in Keys, VisitTargets(s) PROVE StepsLeft' < StepsLeft
  <2>1. PICK more : more = Outgoing(s) \ reachable
    OBVIOUS
  <2>2. /\ phase = "reach" /\ phase' = "reach" /\ s \in pending
        /\ reachable' = reachable \cup more /\ pending' = (pending \ {s}) \cup more
    BY <1>5, <2>1 DEF VisitTargets
  <2>3. pending \subseteq reachable /\ reachable \subseteq StageKeys /\ more \subseteq StageKeys \ reachable
    BY <2>1, <2>2, FoundAreStages DEF Outgoing
  <2>4. OneStageLess(StageKeys, reachable, pending, s, more)
    BY <1>2, <2>2, <2>3, VisitCounts
  <2>5. Work(StageKeys, reachable, pending)' = Work(StageKeys, reachable, pending) - 1
    BY <1>1, <2>2, <2>4 DEF OneStageLess
  <2> QED BY <1>1, <1>2, <2>2, <2>4, <2>5 DEF StepsLeft, OneStageLess, OneStageLess
<1>6. CASE EndReach /\ ~Ended'
  <2>1. phase = "reach" /\ pending = {} /\ phase' = "finish"
        /\ canFinish' = Terminals /\ pending' = Terminals
    BY <1>6 DEF EndReach, Refuse, Ended
  <2>2. /\ Cardinality(StageKeys \ Terminals) \in Nat /\ Cardinality(Terminals) \in Nat
        /\ Cardinality(StageKeys \ Terminals) + Cardinality(Terminals) = n
    BY <1>1, <1>2, ListedGraph, SplitCount
  <2>3. Cardinality(StageKeys \ reachable) \in Nat /\ Cardinality(pending) = 0
    BY <1>2, <2>1, FoundAreStages, SplitCount, FS_EmptySet
  <2> QED BY <1>1, <1>2, <2>1, <2>2, <2>3 DEF StepsLeft, Work
<1>7. ASSUME NEW t \in Keys, VisitSources(t) PROVE StepsLeft' < StepsLeft
  <2>1. PICK more : more = Incoming(t) \ canFinish
    OBVIOUS
  <2>2. /\ phase = "finish" /\ phase' = "finish" /\ t \in pending
        /\ canFinish' = canFinish \cup more /\ pending' = (pending \ {t}) \cup more
    BY <1>7, <2>1 DEF VisitSources
  <2>3. pending \subseteq canFinish /\ canFinish \subseteq StageKeys /\ more \subseteq StageKeys \ canFinish
    BY <2>1, <2>2, FoundAreStages DEF Incoming
  <2>4. OneStageLess(StageKeys, canFinish, pending, t, more)
    BY <1>2, <2>2, <2>3, VisitCounts
  <2>5. Work(StageKeys, canFinish, pending)' = Work(StageKeys, canFinish, pending) - 1
    BY <1>1, <2>2, <2>4 DEF OneStageLess
  <2> QED BY <1>1, <1>2, <2>2, <2>4, <2>5 DEF StepsLeft, OneStageLess
<1>8. ~Ended
  BY DEF Next, CheckLists, VisitTargets, EndReach, VisitSources, EndFinish, Ended
<1>9. CASE EndFinish
  BY <1>3, <1>8, <1>9 DEF EndFinish, Refuse, Ended
<1> QED BY <1>3, <1>4, <1>5, <1>6, <1>7, <1>8, <1>9 DEF Next

(* Validation takes at most 2n + 3 steps for n stages: every step it takes *)
(* leaves fewer, and none is left exactly when it has returned or raised.  *)
(* This is the argument behind ValidationEnds.                             *)
THEOREM ValidationIsBounded ==
  Spec => /\ []( /\ StepsLeft \in 0..2 * Len(config.stages) + 3
                 /\ StepsLeft = 0 <=> phase \in {"accepted", "refused"} )
          /\ [][StepsLeft' < StepsLeft]_vars
<1>1. ASSUME GraphInv
      PROVE  /\ StepsLeft \in 0..2 * Len(config.stages) + 3
             /\ StepsLeft = 0 <=> phase \in {"accepted", "refused"}
  <2>1. Len(config.stages) \in Nat
    BY <1>1, DefinitionsAssumption DEF GraphInv, TypeOK, Definition
  <2> QED BY <1>1, <2>1, StepsAreCounted DEF Ended
<1>2. GraphInv /\ [Next]_vars => [StepsLeft' < StepsLeft]_vars
  BY StepTaken
<1> QED BY <1>1, <1>2, ValidationInductive, PTL DEF Spec

(* What the calculation needs to get on and validation does not check: the *)
(* hours end after they begin, and from every day on the search sees       *)
(* another open day.  A night shift fails the first, see DeadlineEnds.     *)
ServiceGoesOn ==
    \A d \in Definitions : d.calendar # None =>
        LET c      == d.calendar
            opens  == IF c.start = None THEN DefaultStart ELSE c.start
            closes == IF c.end # None /\ c.end > opens THEN c.end ELSE DefaultEnd
        IN  /\ opens < closes
            /\ \A t \in Nat : \E e \in t + 1..t + Horizon - 1 :
                  e % Week \in c.days /\ e \notin c.holidays

LEMMA ServiceAhead ==
  ASSUME ServiceGoesOn, config \in Definitions, config.calendar # None
  PROVE  Closes > Opens /\ \A t \in Nat : ~NothingAhead(t)
<1>1. /\ Opens < Closes
      /\ \A d \in Nat : \E e \in d + 1..d + Horizon - 1 : OpenDay(e)
  BY DEF ServiceGoesOn, Opens, Closes, OpenDay
<1>2. Opens \in Int /\ Closes \in Int
  BY CalendarAssumption, DefinitionsAssumption DEF Opens, Closes, Definition, Calendar, Hour
<1>3. ASSUME NEW t \in Nat, NothingAhead(t) PROVE FALSE
  <2>1. DayOf(t) \in Nat /\ Horizon \in Nat
    BY DayDivides, CalendarAssumption
  <2>2. PICK e \in DayOf(t) + 1..DayOf(t) + Horizon - 1 : OpenDay(e)
    BY <1>1, <2>1
  <2>3. e \in DayOf(t)..DayOf(t) + Horizon - 1 /\ e # DayOf(t)
    BY <2>1
  <2> QED BY <1>3, <2>2, <2>3 DEF NothingAhead
<1> QED BY <1>1, <1>2, <1>3

(* Every step of a calculation ends it or spends some of its hours.        *)
Spends(r, q) ==
    \/ q.due # None
    \/ q.remaining \in Nat \ {0} /\ q.remaining < r.remaining

HoursSpent == Calculating => Spends(deadline, deadline')

LEMMA SpendingStep ==
  ASSUME ServiceGoesOn, DefinitionInv, DefinitionNext, Calculating
  PROVE  Spends(deadline, deadline')
<1>1. /\ deadline # None /\ deadline.due = None /\ RecordOK(deadline)
      /\ phase = "accepted" /\ config \in Definitions
  BY DEF Calculating, DefinitionInv, GraphInv, TypeOK
<1>2. /\ deadline \in Calculation /\ Running(deadline) /\ config.calendar # None
  BY <1>1 DEF RecordOK, Running
<1>3. PICK x \in Nat : x = deadline.local
  BY <1>2 DEF Calculation
<1>4. PICK k \in Nat \ {0} : k = deadline.remaining
  BY <1>2 DEF Calculation
<1>5. OpenDay(DayOf(x)) /\ x < ClosingOf(DayOf(x))
  <2>1. Closes > Opens /\ ~NothingAhead(x)
    BY <1>1, <1>2, ServiceAhead
  <2>2. Stands(deadline)
    BY <1>2, <2>1 DEF Running
  <2> QED BY <1>3, <2>1, <2>2 DEF Stands
<1>6. SpendDay \/ FinishDeadline
  <2>1. ~Next
    BY <1>1 DEF Next, CheckLists, VisitTargets, EndReach, VisitSources, EndFinish
  <2>2. ~SkipDay
    BY <1>3, <1>5 DEF SkipDay
  <2>3. \A from \in Starts, hours \in Hours : ~BeginDeadline(from, hours)
    BY <1>1 DEF BeginDeadline
  <2> QED BY <2>1, <2>2, <2>3 DEF DefinitionNext
<1>7. PICK c \in Nat : c = ClosingOf(DayOf(x))
  <2>1. DayOf(x) \in Nat
    BY DayDivides
  <2> QED BY <1>1, <1>2, <2>1, DayOfHours
<1>8. CASE FinishDeadline
  <2>1. deadline' = [deadline EXCEPT !.due = x + k]
    BY <1>3, <1>4, <1>8 DEF FinishDeadline
  <2>2. deadline'.due = x + k /\ x + k \in Nat
    BY <1>2, <2>1 DEF Calculation
  <2> QED BY <2>2, CalendarAssumption DEF Spends
<1>9. CASE SpendDay
  <2>1. PICK m : m = k - Max({c - x, 0})
    OBVIOUS
  <2>2. deadline' = [deadline EXCEPT !.remaining = m, !.local = NextOpen(c + 1)] /\ k > c - x
    BY <1>3, <1>4, <1>7, <1>9, <2>1 DEF SpendDay, Available
  <2>3. Max({c - x, 0}) = c - x
    BY <1>5, <1>7, GreaterOfTwo
  <2>4. m \in Nat \ {0} /\ m < k
    BY <1>5, <1>7, <2>1, <2>2, <2>3
  <2>5. deadline'.remaining = m
    BY <1>2, <2>2 DEF Calculation
  <2> QED BY <1>4, <2>4, <2>5 DEF Spends
<1> QED BY <1>6, <1>8, <1>9

(* Where service goes on, a deadline of h hours is calculated in at most h *)
(* steps, on every calendar: each step that does not end the calculation   *)
(* spends at least one of them.  This is the argument behind DeadlineEnds. *)
THEOREM DeadlineAdvances ==
  ASSUME ServiceGoesOn
  PROVE  DefinitionSpec => [][HoursSpent]_allVars
<1>1. ASSUME DefinitionInv, [DefinitionNext]_allVars PROVE [HoursSpent]_allVars
  <2>1. SUFFICES ASSUME allVars' # allVars, Calculating
                 PROVE  Spends(deadline, deadline')
    BY DEF HoursSpent
  <2>2. DefinitionNext
    BY <1>1, <2>1
  <2> QED BY <1>1, <2>1, <2>2, SpendingStep
<1> QED BY <1>1, DefinitionInductive, PTL DEF DefinitionSpec
=============================================================================
