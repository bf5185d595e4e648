-------------------------- MODULE CaseLifecycleProofs --------------------------
(***************************************************************************)
(* Proofs about CaseLifecycle for every set of cases, stages, approvals    *)
(* and revisions, and any number of requests.                              *)
(***************************************************************************)
EXTENDS CaseLifecycle, TLAPS

\* create_stage_approvals writes rows that do not exist yet and no others.
LEMMA RequestedFacts ==
  ASSUME NEW row \in [Approvals -> ApprovalStatus], NEW v \in Versions, NEW t \in Stages
  PROVE  /\ Requested(row, v, t) \in [Approvals -> ApprovalStatus]
         /\ \A a \in Approvals : row[a] # "Absent" => Requested(row, v, t)[a] = row[a]
         /\ \A a \in Asked(v, t) : Requested(row, v, t)[a] # "Absent"
  BY ConfigAssumption DEF Requested, Asked, ApprovalStatus, Decision

LEMMA ConfigFacts ==
  ASSUME NEW v \in Versions
  PROVE  /\ Config[v].initial \in Stages
         /\ Config[v].initial \notin Config[v].terminal
         /\ Config[v].terminal \subseteq Stages
         /\ \A e \in Config[v].edges :
              e \in Edge /\ e.from \in Stages /\ e.to \in Stages /\ e.gated \in BOOLEAN
  BY ConfigAssumption DEF Edge

LEMMA InitType == Init => TypeOK
  BY ConfigAssumption DEF Init, TypeOK, ApprovalStatus, Existing

LEMMA NextType == TypeOK /\ [Next]_vars => TypeOK'
<1> SUFFICES ASSUME TypeOK, [Next]_vars PROVE TypeOK'
  OBVIOUS
<1> USE ConfigAssumption DEF TypeOK, Existing
<1>1. ASSUME NEW c \in Cases, CreateCase(c) PROVE TypeOK'
  <2> DEFINE start == Config[version[c]].initial
  <2>1. start \in Stages /\ Requested(approval[c], version[c], start)
                              \in [Approvals -> ApprovalStatus]
    BY ConfigFacts, RequestedFacts
  <2>2. QED
    BY <1>1, <2>1 DEF CreateCase
<1>2. ASSUME NEW s \in Sessions, NEW c \in Cases, LoadCase(s, c) PROVE TypeOK'
  <2>1. (IF s \in Pages THEN approval[c] ELSE Nothing) \in [Approvals -> ApprovalStatus]
    BY DEF Nothing, ApprovalStatus
  <2>2. QED
    BY <1>2, <2>1 DEF LoadCase, Loaded, View, rows
<1>3. ASSUME NEW s \in Sessions, NEW c \in Cases, NEW a \in Approvals, LoadApproval(s, c, a)
      PROVE TypeOK'
  <2>1. [Nothing EXCEPT ![a] = approval[c][a]] \in [Approvals -> ApprovalStatus]
    BY DEF Nothing, ApprovalStatus
  <2>2. QED
    BY <1>3, <2>1 DEF LoadApproval, Loaded, View, rows
<1>4. ASSUME NEW s \in Sessions, NEW e \in Edge, Transition(s, e) PROVE TypeOK'
  <2>1. view[s] \in View
    BY <1>4 DEF Transition
  <2>2. /\ e.to \in Stages /\ view[s].case \in Cases /\ view[s].version \in Versions
        /\ Requested(approval[view[s].case], view[s].version, e.to)
             \in [Approvals -> ApprovalStatus]
    BY <2>1, RequestedFacts DEF View, Edge
  <2>3. stage' \in [Cases -> Stages \cup {None}] /\ Existing \subseteq Existing'
    BY <1>4, <2>2 DEF Transition
  <2>4. approval' \in [Cases -> [Approvals -> ApprovalStatus]]
    BY <1>4, <2>2 DEF Transition
  <2>5. closed' \in [Cases -> BOOLEAN] /\ view' \in [Sessions -> View \cup {None}]
    BY <1>4, <2>2 DEF Transition, Done
  <2>6. QED
    BY <1>4, <2>3, <2>4, <2>5 DEF Transition
<1>5. ASSUME NEW s \in Sessions, NEW d \in Decision, Decide(s, d) PROVE TypeOK'
  <2>1. view[s].case \in Cases /\ view[s].of \in Approvals
    BY <1>5 DEF Decide, View
  <2>2. QED
    BY <1>5, <2>1 DEF Decide, Done, ApprovalStatus
<1>6. ASSUME NEW s \in Sessions, NEW w \in Versions, Migrate(s, w) PROVE TypeOK'
  BY <1>6 DEF Migrate, Done
<1>7. ASSUME NEW s \in Sessions, Refuse(s) PROVE TypeOK'
  BY <1>7 DEF Refuse, Done, rows
<1>8. ASSUME NEW S \in SUBSET Cases, NEW t \in Stages, BulkTransition(S, t) PROVE TypeOK'
  <2>1. \A c \in Cases : Requested(approval[c], version[c], t)
                           \in [Approvals -> ApprovalStatus]
    BY RequestedFacts
  <2>2. QED
    BY <1>8, <2>1 DEF BulkTransition
<1>9. ASSUME NEW p \in Cases, NEW k \in Cases, Relate(p, k) PROVE TypeOK'
  BY <1>9 DEF Relate
<1>10. CASE UNCHANGED vars
  BY <1>10 DEF vars, rows
<1>11. QED
  BY <1>1, <1>2, <1>3, <1>4, <1>5, <1>6, <1>7, <1>8, <1>9, <1>10 DEF Next, Handle

(* Every variable keeps its type, and parent/child links join two distinct *)
(* existing cases, in every behaviour.                                     *)
THEOREM TypeCorrect == Spec => []TypeOK
  BY InitType, NextType, PTL DEF Spec

(***************************************************************************)
(* When no other request is handled between a load and the lock, a loaded  *)
(* object is the row, and only one request has one.                        *)
(***************************************************************************)
Solo == \A s, t \in Sessions : view[s] # None /\ view[t] # None => s = t

Fresh ==
    \A s \in Sessions : view[s] # None =>
        /\ view[s].case \in Existing
        /\ view[s].stage = stage[view[s].case]
        /\ view[s].closed = closed[view[s].case]
        /\ view[s].version = version[view[s].case]
        /\ \A a \in Approvals :
             view[s].known[a] \in {"Absent", approval[view[s].case][a]}

LoneInv == Solo /\ Fresh /\ \A c \in Cases \ Existing : ~closed[c]

\* What a step then does to one case.
Created(c) ==
    /\ c \notin Existing /\ version' = version
    /\ LET start == Config[version[c]].initial IN
        /\ stage'[c] = start /\ closed'[c] = FALSE
        /\ approval'[c] = Requested(approval[c], version[c], start)

Moved(c) ==
    /\ c \in Existing /\ ~closed[c] /\ version' = version
    /\ \E e \in Config[version[c]].edges :
        /\ e.from = stage[c] /\ Approved(e, approval[c])
        /\ stage'[c] = e.to
        /\ closed'[c] = (e.to \in Config[version[c]].terminal)
        /\ approval'[c] = Requested(approval[c], version[c], e.to)

Decided(c) ==
    /\ stage'[c] = stage[c] /\ closed'[c] = closed[c] /\ version' = version
    /\ \E a \in Approvals, d \in Decision :
        /\ approval[c][a] = "Pending"
        /\ approval'[c] = [approval[c] EXCEPT ![a] = d]

Migrated(c) ==
    /\ c \in Existing
    /\ stage'[c] = stage[c] /\ closed'[c] = closed[c] /\ approval'[c] = approval[c]
    /\ <<version[c], version'[c]>> \in Migrations
    /\ stage[c] \in Config[version'[c]].stages

Untouched(c) ==
    /\ stage'[c] = stage[c] /\ closed'[c] = closed[c]
    /\ version'[c] = version[c] /\ approval'[c] = approval[c]

LEMMA RowFacts ==
  ASSUME TypeOK, NEW c \in Cases
  PROVE  /\ approval[c] \in [Approvals -> ApprovalStatus]
         /\ version[c] \in Versions /\ closed[c] \in BOOLEAN
         /\ stage[c] \in Stages \cup {None}
  BY DEF TypeOK

\* A request that has ended, and one that has not begun, holds nothing.
LEMMA Alone ==
  ASSUME TypeOK, Solo, NEW s \in Sessions, view[s] # None, Done(s)
  PROVE  Solo' /\ Fresh'
<1>1. \A t \in Sessions : view'[t] = None
  BY DEF Done, Solo, TypeOK
<1>2. QED
  BY <1>1 DEF Solo, Fresh

\* The gate of a fresh object looks at the rows.
LEMMA FreshSeen ==
  ASSUME TypeOK, Fresh, NEW s \in Sessions, view[s] # None
  PROVE  Seen(s) = approval[view[s].case]
<1>1. approval[view[s].case] \in [Approvals -> ApprovalStatus]
  BY DEF TypeOK, Fresh, Existing
<1>2. \A a \in Approvals : Seen(s)[a] = approval[view[s].case][a]
  BY DEF Seen, Fresh
<1>3. QED
  BY <1>1, <1>2 DEF Seen

LEMMA CaseStep ==
  ASSUME ~Overlap, TypeOK, LoneInv, [Next]_vars, NEW c \in Cases
  PROVE  Created(c) \/ Moved(c) \/ Decided(c) \/ Migrated(c) \/ Untouched(c)
<1>0. /\ approval[c] \in [Approvals -> ApprovalStatus]
      /\ version[c] \in Versions /\ closed[c] \in BOOLEAN
  BY RowFacts
<1>1. ASSUME NEW b \in Cases, CreateCase(b) PROVE Created(c) \/ Untouched(c)
  <2>1. CASE b = c
    BY <1>0, <1>1, <2>1 DEF CreateCase, Created, LoneInv, TypeOK
  <2>2. CASE b # c
    BY <1>1, <2>2 DEF CreateCase, Untouched, TypeOK
  <2>3. QED
    BY <2>1, <2>2
<1>2. ASSUME UNCHANGED rows PROVE Untouched(c)
  BY <1>2 DEF rows, Untouched
<1>3. ASSUME NEW s \in Sessions, NEW e \in Edge, Transition(s, e) PROVE Moved(c) \/ Untouched(c)
  <2> DEFINE b == view[s].case
  <2>1. view[s] # None
    BY <1>3 DEF Transition
  <2>2. /\ b \in Existing /\ b \in Cases /\ view[s].stage = stage[b]
        /\ view[s].closed = closed[b] /\ view[s].version = version[b]
    BY <2>1 DEF LoneInv, Fresh, Existing
  <2>3. CASE b # c
    BY <1>3, <2>2, <2>3 DEF Transition, Untouched, TypeOK
  <2>4. CASE b = c
    <3>1. ~closed[c] /\ e \in Config[version[c]].edges /\ e.from = stage[c]
          /\ Approved(e, approval[c])
      BY <1>3, <2>1, <2>2, <2>4, FreshSeen DEF Transition, LoneInv
    <3>2. stage'[c] = e.to
      BY <1>3, <2>2, <2>4, <3>1 DEF Transition, TypeOK
    <3>3. closed'[c] = (e.to \in Config[version[c]].terminal)
      BY <1>3, <2>2, <2>4, <3>1 DEF Transition, TypeOK
    <3>4. approval'[c] = Requested(approval[c], version[c], e.to) /\ version' = version
      BY <1>3, <2>2, <2>4 DEF Transition, TypeOK
    <3>5. QED
      BY <2>2, <2>4, <3>1, <3>2, <3>3, <3>4 DEF Moved
  <2>5. QED
    BY <2>3, <2>4
<1>4. ASSUME NEW s \in Sessions, NEW d \in Decision, Decide(s, d)
      PROVE  Decided(c) \/ Untouched(c)
  <2> DEFINE b == view[s].case
             a == view[s].of
  <2>1. view[s] # None /\ a \in Approvals
    BY <1>4 DEF Decide, TypeOK, View
  <2>2. b \in Cases /\ approval[b][a] = "Pending"
    BY <1>4, <2>1 DEF Decide, LoneInv, Fresh, Existing
  <2>3. CASE b = c
    BY <1>4, <2>1, <2>2, <2>3 DEF Decide, Decided, TypeOK
  <2>4. CASE b # c
    BY <1>4, <2>2, <2>4 DEF Decide, Untouched, TypeOK
  <2>5. QED
    BY <2>3, <2>4
<1>5. ASSUME NEW s \in Sessions, NEW w \in Versions, Migrate(s, w)
      PROVE  Migrated(c) \/ Untouched(c)
  <2> DEFINE b == view[s].case
  <2>1. view[s] # None
    BY <1>5 DEF Migrate
  <2>2. b \in Existing /\ b \in Cases /\ view[s].version = version[b] /\ view[s].stage = stage[b]
    BY <2>1 DEF LoneInv, Fresh, Existing
  <2>3. CASE b = c
    <3>1. version'[c] = w
      BY <1>5, <2>2, <2>3 DEF Migrate, TypeOK
    <3>2. QED
      BY <1>5, <2>2, <2>3, <3>1 DEF Migrate, Migrated
  <2>4. CASE b # c
    BY <1>5, <2>2, <2>4 DEF Migrate, Untouched, TypeOK
  <2>5. QED
    BY <2>3, <2>4
<1>6. ASSUME NEW S \in SUBSET Cases, NEW t \in Stages, BulkTransition(S, t)
      PROVE  Moved(c) \/ Untouched(c)
  <2>1. CASE c \in S
    <3>1. c \in Existing /\ ~closed[c] /\ \E before : CanMove(c, t, before)
      BY <1>6, <2>1 DEF BulkTransition
    <3>2. PICK e \in Config[version[c]].edges :
            e.from = stage[c] /\ e.to = t /\ Approved(e, approval[c])
      BY <3>1 DEF CanMove
    <3>3. /\ stage'[c] = e.to /\ version' = version
          /\ approval'[c] = Requested(approval[c], version[c], e.to)
      BY <1>6, <2>1, <3>2 DEF BulkTransition
    <3>4. closed'[c] = (e.to \in Config[version[c]].terminal)
      BY <1>6, <2>1, <3>1, <3>2 DEF BulkTransition
    <3>5. QED
      BY <3>1, <3>2, <3>3, <3>4 DEF Moved
  <2>2. CASE c \notin S
    BY <1>0, <1>6, <2>2 DEF BulkTransition, Untouched
  <2>3. QED
    BY <2>1, <2>2
<1>7. ASSUME NEW p \in Cases, NEW k \in Cases, Relate(p, k) PROVE Untouched(c)
  BY <1>7 DEF Relate, Untouched
<1>8. ASSUME NEW s \in Sessions, Handle(s)
      PROVE  Moved(c) \/ Decided(c) \/ Migrated(c) \/ Untouched(c)
  <2>1. ASSUME NEW b \in Cases, LoadCase(s, b) PROVE Untouched(c)
    BY <1>2, <2>1 DEF LoadCase, Loaded
  <2>2. ASSUME NEW b \in Cases, NEW a \in Approvals, LoadApproval(s, b, a) PROVE Untouched(c)
    BY <1>2, <2>2 DEF LoadApproval, Loaded
  <2>3. ASSUME Refuse(s) PROVE Untouched(c)
    BY <1>2, <2>3 DEF Refuse
  <2>4. QED
    BY <1>3, <1>4, <1>5, <1>8, <2>1, <2>2, <2>3 DEF Handle
<1>9. CASE UNCHANGED vars
  BY <1>2, <1>9 DEF vars
<1>10. QED
  BY <1>1, <1>6, <1>7, <1>8, <1>9 DEF Next

LEMMA NextLone ==
  ASSUME ~Overlap, TypeOK, LoneInv, [Next]_vars
  PROVE  LoneInv'
<1>1. ASSUME NEW c \in Cases \ Existing' PROVE ~closed'[c]
  <2>1. Created(c) \/ Moved(c) \/ Decided(c) \/ Migrated(c) \/ Untouched(c)
    BY CaseStep
  <2>2. Moved(c) => c \in Existing'
    <3> SUFFICES ASSUME Moved(c) PROVE c \in Existing'
      OBVIOUS
    <3>1. \A e \in Config[version[c]].edges : e.to \in Stages
      BY RowFacts, ConfigFacts
    <3>2. QED
      BY <3>1, ConfigAssumption DEF Moved, Existing
  <2>3. QED
    BY <1>1, <2>1, <2>2 DEF LoneInv, Existing, Created, Decided, Migrated, Untouched
<1>2. ASSUME \A s \in Sessions : view'[s] = None PROVE Solo' /\ Fresh'
  BY <1>2 DEF Solo, Fresh
<1>3. ASSUME NEW c \in Cases, CreateCase(c) PROVE Solo' /\ Fresh'
  BY <1>2, <1>3 DEF CreateCase, Quiet
<1>4. ASSUME NEW S \in SUBSET Cases, NEW t \in Stages, BulkTransition(S, t)
      PROVE  Solo' /\ Fresh'
  BY <1>2, <1>4 DEF BulkTransition, Quiet
<1>5. ASSUME NEW p \in Cases, NEW k \in Cases, Relate(p, k) PROVE Solo' /\ Fresh'
  BY <1>2, <1>5 DEF Relate, Quiet
<1>6. ASSUME NEW s \in Sessions, NEW c \in Cases, NEW of,
             NEW known \in [Approvals -> ApprovalStatus],
             \A a \in Approvals : known[a] \in {"Absent", approval[c][a]},
             Loaded(s, c, of, known)
      PROVE  Solo' /\ Fresh'
  <2>1. \A t \in Sessions \ {s} : view'[t] = None
    BY <1>6 DEF Loaded, Quiet, TypeOK
  <2>2. /\ view'[s] = [case |-> c, of |-> of, stage |-> stage[c], closed |-> closed[c],
                       version |-> version[c], known |-> known]
        /\ c \in Existing /\ UNCHANGED rows
    BY <1>6 DEF Loaded, TypeOK
  <2>3. Solo'
    BY <2>1 DEF Solo
  <2>4. Fresh'
    BY <1>6, <2>1, <2>2 DEF Fresh, Existing, rows
  <2>5. QED
    BY <2>3, <2>4
<1>7. ASSUME NEW s \in Sessions, Handle(s) PROVE Solo' /\ Fresh'
  <2>1. ASSUME NEW c \in Cases, LoadCase(s, c) PROVE Solo' /\ Fresh'
    <3> DEFINE known == IF s \in Pages THEN approval[c] ELSE Nothing
    <3>1. known \in [Approvals -> ApprovalStatus]
      BY RowFacts DEF Nothing, ApprovalStatus
    <3>2. \A a \in Approvals : known[a] \in {"Absent", approval[c][a]}
      BY DEF Nothing
    <3>3. QED
      BY <1>6, <2>1, <3>1, <3>2 DEF LoadCase
  <2>2. ASSUME NEW c \in Cases, NEW a \in Approvals, LoadApproval(s, c, a)
        PROVE  Solo' /\ Fresh'
    <3> DEFINE known == [Nothing EXCEPT ![a] = approval[c][a]]
    <3>1. known \in [Approvals -> ApprovalStatus]
      BY RowFacts DEF Nothing, ApprovalStatus
    <3>2. \A b \in Approvals : known[b] \in {"Absent", approval[c][b]}
      BY DEF Nothing
    <3>3. QED
      BY <1>6, <2>2, <3>1, <3>2 DEF LoadApproval
  <2>3. ASSUME view[s] # None, Done(s) PROVE Solo' /\ Fresh'
    BY <2>3, Alone DEF LoneInv
  <2>4. QED
    BY <1>7, <2>1, <2>2, <2>3 DEF Handle, Transition, Decide, Migrate, Refuse
<1>8. CASE UNCHANGED vars
  BY <1>8 DEF vars, rows, LoneInv, Solo, Fresh, Existing
<1>9. QED
  BY <1>1, <1>3, <1>4, <1>5, <1>7, <1>8 DEF Next, LoneInv

LEMMA InitLone == Init => LoneInv
  BY DEF Init, LoneInv, Solo, Fresh

LEMMA AlwaysLone == ASSUME ~Overlap PROVE Spec => [](TypeOK /\ LoneInv)
<1>1. TypeOK /\ LoneInv /\ [Next]_vars => (TypeOK /\ LoneInv)'
  BY NextType, NextLone
<1>2. QED
  BY <1>1, InitType, InitLone, PTL DEF Spec

(***************************************************************************)
(* Completion and stage.  migration_preview (workflow_versions.py:125)     *)
(* asks only that the target knows the stage of the case, not that it      *)
(* agrees on whether that stage is terminal.  A migration that does not    *)
(* leaves an open case in a terminal stage, or a completed one in a stage  *)
(* to work in, so agreement is a condition here.                           *)
(***************************************************************************)
KeepsEnds ==
    \A m \in Migrations :
        \A t \in Config[m[1]].stages \cap Config[m[2]].stages :
            t \in Config[m[1]].terminal <=> t \in Config[m[2]].terminal

Ended(c) ==
    /\ stage[c] \in Config[version[c]].stages
    /\ closed[c] <=> stage[c] \in Config[version[c]].terminal

LEMMA EndsKept ==
  ASSUME ~Overlap, KeepsEnds, TypeOK, LoneInv, [Next]_vars, \A c \in Existing : Ended(c)
  PROVE  \A c \in Existing' : Ended(c)'
<1> SUFFICES ASSUME NEW c \in Existing' PROVE Ended(c)'
  OBVIOUS
<1>0. c \in Cases /\ version[c] \in Versions
  BY RowFacts DEF Existing
<1>1. /\ Config[version[c]].initial \in Config[version[c]].stages \ Config[version[c]].terminal
      /\ \A e \in Config[version[c]].edges : e.to \in Config[version[c]].stages
  BY <1>0, ConfigAssumption
<1>2. CASE Created(c)
  BY <1>1, <1>2 DEF Created, Ended
<1>3. CASE Moved(c)
  BY <1>1, <1>3 DEF Moved, Ended
<1>4. CASE Decided(c)
  BY <1>4 DEF Decided, Ended, Existing
<1>5. CASE Migrated(c)
  <2>1. Ended(c)
    BY <1>5 DEF Migrated
  <2>2. stage[c] \in Config[version[c]].terminal <=> stage[c] \in Config[version'[c]].terminal
    BY <1>5, <2>1 DEF Migrated, Ended, KeepsEnds
  <2>3. QED
    BY <1>5, <2>1, <2>2 DEF Migrated, Ended
<1>6. CASE Untouched(c)
  BY <1>6 DEF Untouched, Ended, Existing
<1>7. QED
  BY <1>0, <1>2, <1>3, <1>4, <1>5, <1>6, CaseStep

(* completed_at is set exactly for the cases in a terminal stage, provided *)
(* that requests do not overlap and that every two revisions a case is     *)
(* migrated between agree on which of their common stages are terminal,    *)
(* which the code does not check.                                          *)
THEOREM CompletionAgrees ==
  ASSUME ~Overlap, KeepsEnds
  PROVE  Spec => []ClosedIffTerminal
<1> DEFINE EndsInv == \A c \in Existing : Ended(c)
<1>1. Init => EndsInv
  BY DEF Init, Existing
<1>2. TypeOK /\ LoneInv /\ EndsInv /\ [Next]_vars => EndsInv'
  BY EndsKept
<1>3. EndsInv => ClosedIffTerminal
  BY DEF Ended, ClosedIffTerminal
<1> HIDE DEF EndsInv
<1>4. QED
  BY <1>1, <1>2, <1>3, AlwaysLone, PTL DEF Spec

(***************************************************************************)
(* The gate.  It looks at existing rows only, so that the approvals of a   *)
(* stage are asked for on every way into it is part of the argument.       *)
(***************************************************************************)
Passed(v, t, row) ==
    \E e \in Config[v].edges :
        e.to = t /\ \A a \in Asked(v, e.from) : row[a] = "Approved"

Sound(t, v, row) ==
    /\ \A a \in Asked(v, t) : row[a] # "Absent"
    /\ Guarded(v, t) => Passed(v, t, row)

\* A migration keeps the initial stage and the edges, may add edges, and
\* asks for no more approvals.
Relaxing(m) ==
    /\ Config[m[2]].initial = Config[m[1]].initial
    /\ Config[m[1]].edges \subseteq Config[m[2]].edges
    /\ Config[m[2]].asks \subseteq Config[m[1]].asks

LEMMA CreateSound ==
  ASSUME NEW row \in [Approvals -> ApprovalStatus], NEW v \in Versions
  PROVE  Sound(Config[v].initial, v, Requested(row, v, Config[v].initial))
<1> DEFINE start == Config[v].initial
<1>1. \A a \in Asked(v, start) : Requested(row, v, start)[a] # "Absent"
  BY ConfigFacts, RequestedFacts
<1>2. QED
  BY <1>1 DEF Sound, Guarded

LEMMA MoveSound ==
  ASSUME NEW row \in [Approvals -> ApprovalStatus], NEW v \in Versions,
         NEW e \in Config[v].edges, Sound(e.from, v, row), Approved(e, row)
  PROVE  Sound(e.to, v, Requested(row, v, e.to))
<1> DEFINE new == Requested(row, v, e.to)
<1>1. e.from \in Stages /\ e.to \in Stages
  BY ConfigFacts
<1>2. /\ \A a \in Approvals : row[a] # "Absent" => new[a] = row[a]
      /\ \A a \in Asked(v, e.to) : new[a] # "Absent"
  BY <1>1, RequestedFacts
<1>3. Guarded(v, e.to) => Passed(v, e.to, new)
  <2> SUFFICES ASSUME Guarded(v, e.to), NEW a \in Asked(v, e.from)
               PROVE  new[a] = "Approved"
    BY DEF Passed
  <2>1. e.gated
    BY DEF Guarded
  <2>2. a \in Approvals /\ AskedAt[a] = e.from
    BY ConfigAssumption DEF Asked
  <2>3. row[a] # "Absent" /\ row[a] \in {"Absent", "Approved"}
    BY <2>1, <2>2 DEF Sound, Approved
  <2>4. QED
    BY <1>2, <2>2, <2>3
<1>4. QED
  BY <1>2, <1>3 DEF Sound

LEMMA DecideSound ==
  ASSUME NEW row \in [Approvals -> ApprovalStatus], NEW v \in Versions, NEW t,
         Sound(t, v, row), NEW a \in Approvals, row[a] = "Pending", NEW d \in Decision
  PROVE  Sound(t, v, [row EXCEPT ![a] = d])
<1> DEFINE new == [row EXCEPT ![a] = d]
<1>1. \A b \in Approvals : row[b] # "Pending" => new[b] = row[b]
  OBVIOUS
<1>2. \A u : Asked(v, u) \subseteq Approvals
  BY ConfigAssumption DEF Asked
<1>3. Guarded(v, t) => Passed(v, t, new)
  BY <1>1, <1>2 DEF Sound, Passed
<1>4. \A b \in Asked(v, t) : new[b] # "Absent"
  BY <1>2 DEF Sound, Decision
<1>5. QED
  BY <1>3, <1>4 DEF Sound

LEMMA MigrateSound ==
  ASSUME NEW row, NEW v, NEW w, Relaxing(<<v, w>>), NEW t, Sound(t, v, row)
  PROVE  Sound(t, w, row)
<1>1. /\ Config[w].initial = Config[v].initial
      /\ Config[v].edges \subseteq Config[w].edges
      /\ Config[w].asks \subseteq Config[v].asks
  BY DEF Relaxing
<1>2. \A u : Asked(w, u) \subseteq Asked(v, u)
  BY <1>1 DEF Asked
<1>3. Guarded(w, t) => Guarded(v, t)
  BY <1>1 DEF Guarded
<1>4. Passed(v, t, row) => Passed(w, t, row)
  BY <1>1, <1>2 DEF Passed
<1>5. QED
  BY <1>2, <1>3, <1>4 DEF Sound

CasesSound == \A c \in Existing : Sound(stage[c], version[c], approval[c])

LEMMA SoundKept ==
  ASSUME ~Overlap, \A m \in Migrations : Relaxing(m), TypeOK, LoneInv, CasesSound, [Next]_vars
  PROVE  CasesSound'
<1> SUFFICES ASSUME NEW c \in Existing' PROVE Sound(stage'[c], version'[c], approval'[c])
  BY DEF CasesSound
<1>0. c \in Cases /\ version[c] \in Versions /\ approval[c] \in [Approvals -> ApprovalStatus]
  BY RowFacts DEF Existing
<1>1. CASE Created(c)
  BY <1>0, <1>1, CreateSound DEF Created
<1>2. CASE Moved(c)
  BY <1>0, <1>2, MoveSound DEF Moved, CasesSound
<1>3. CASE Decided(c)
  <2>1. Sound(stage[c], version[c], approval[c])
    BY <1>3 DEF Decided, CasesSound, Existing
  <2>2. QED
    BY <1>0, <1>3, <2>1, DecideSound DEF Decided
<1>4. CASE Migrated(c)
  BY <1>0, <1>4, MigrateSound DEF Migrated, CasesSound
<1>5. CASE Untouched(c)
  BY <1>5 DEF Untouched, CasesSound, Existing
<1>6. QED
  BY <1>0, <1>1, <1>2, <1>3, <1>4, <1>5, CaseStep

(* No case is behind an approval gate without the approvals, provided that *)
(* requests do not overlap and that every migration is Relaxing: it keeps  *)
(* the initial stage and the edges and asks for no more approvals.         *)
THEOREM GateHolds ==
  ASSUME ~Overlap, \A m \in Migrations : Relaxing(m)
  PROVE  Spec => []BehindTheGate
<1>1. Init => CasesSound
  BY DEF Init, CasesSound, Existing
<1>2. TypeOK /\ LoneInv /\ CasesSound /\ [Next]_vars => CasesSound'
  BY SoundKept
<1>3. CasesSound => BehindTheGate
  BY DEF CasesSound, Sound, Passed, BehindTheGate
<1>4. QED
  BY <1>1, <1>2, <1>3, AlwaysLone, PTL DEF Spec

(***************************************************************************)
(* What a single step may never do.                                        *)
(***************************************************************************)

\* How any step changes the approval rows of a case.
LEMMA ApprovalStep ==
  ASSUME TypeOK, [Next]_vars, NEW c \in Cases, NEW a \in Approvals
  PROVE  \/ approval[c][a] # "Absent" => approval'[c][a] = approval[c][a]
         \/ \E s \in Sessions, d \in Decision :
              /\ Decide(s, d) /\ view[s].case = c /\ view[s].of = a
              /\ approval'[c][a] = d
<1> USE DEF TypeOK
<1>0. \A b \in Cases : approval[b] \in [Approvals -> ApprovalStatus] /\ version[b] \in Versions
  OBVIOUS
<1>1. ASSUME NEW b \in Cases, CreateCase(b)
      PROVE  approval[c][a] # "Absent" => approval'[c][a] = approval[c][a]
  <2> DEFINE start == Config[version[b]].initial
  <2>1. approval' = [approval EXCEPT ![b] = Requested(approval[b], version[b], start)]
    BY <1>1 DEF CreateCase
  <2>2. approval[b][a] # "Absent" => Requested(approval[b], version[b], start)[a] = approval[b][a]
    BY <1>0, ConfigFacts, RequestedFacts
  <2>3. QED
    BY <2>1, <2>2
<1>2. ASSUME NEW s \in Sessions, NEW e \in Edge, Transition(s, e)
      PROVE  approval[c][a] # "Absent" => approval'[c][a] = approval[c][a]
  <2> DEFINE b == view[s].case
             new == Requested(approval[b], view[s].version, e.to)
  <2>1. b \in Cases /\ view[s].version \in Versions /\ e.to \in Stages
    BY <1>2 DEF Transition, View, Edge
  <2>2. approval' = [approval EXCEPT ![b] = new]
    BY <1>2, <2>1 DEF Transition
  <2>3. approval[b][a] # "Absent" => new[a] = approval[b][a]
    BY <1>0, <2>1, RequestedFacts
  <2>4. QED
    BY <2>1, <2>2, <2>3
<1>3. ASSUME NEW s \in Sessions, NEW d \in Decision, Decide(s, d)
      PROVE  \/ approval'[c][a] = approval[c][a]
             \/ view[s].case = c /\ view[s].of = a /\ approval'[c][a] = d
  BY <1>3 DEF Decide, View
<1>4. ASSUME NEW S \in SUBSET Cases, NEW t \in Stages, BulkTransition(S, t)
      PROVE  approval[c][a] # "Absent" => approval'[c][a] = approval[c][a]
  <2>1. approval'[c] = IF c \in S THEN Requested(approval[c], version[c], t) ELSE approval[c]
    BY <1>4 DEF BulkTransition
  <2>2. approval[c][a] # "Absent" => Requested(approval[c], version[c], t)[a] = approval[c][a]
    BY <1>0, RequestedFacts
  <2>3. QED
    BY <2>1, <2>2
<1>5. ASSUME NEW s \in Sessions, NEW b \in Cases, LoadCase(s, b) PROVE approval' = approval
  BY <1>5 DEF LoadCase, Loaded, rows
<1>6. ASSUME NEW s \in Sessions, NEW b \in Cases, NEW x \in Approvals, LoadApproval(s, b, x)
      PROVE approval' = approval
  BY <1>6 DEF LoadApproval, Loaded, rows
<1>7. ASSUME NEW s \in Sessions, NEW w \in Versions, Migrate(s, w) PROVE approval' = approval
  BY <1>7 DEF Migrate
<1>8. ASSUME NEW s \in Sessions, Refuse(s) PROVE approval' = approval
  BY <1>8 DEF Refuse, rows
<1>9. ASSUME NEW p \in Cases, NEW k \in Cases, Relate(p, k) PROVE approval' = approval
  BY <1>9 DEF Relate
<1>10. CASE UNCHANGED vars
  BY <1>10 DEF vars, rows
<1>11. QED
  BY <1>1, <1>2, <1>3, <1>4, <1>5, <1>6, <1>7, <1>8, <1>9, <1>10 DEF Next, Handle

(* However requests overlap, a decided approval stays decided.             *)
THEOREM NeverUndecided == Spec => DecidedForGood
<1>1. ASSUME TypeOK, [Next]_vars, NEW c \in Cases, NEW a \in Approvals,
             approval[c][a] \in Decision
      PROVE  approval'[c][a] \in Decision
  BY <1>1, ApprovalStep DEF Decision
<1>2. TypeOK /\ [Next]_vars =>
        [\A c \in Cases, a \in Approvals :
           approval[c][a] \in Decision => approval'[c][a] \in Decision]_vars
  BY <1>1
<1>3. QED
  BY <1>2, TypeCorrect, PTL DEF Spec, DecidedForGood

(* Without overlapping requests an approval is decided once, whatever the  *)
(* migrations do.                                                          *)
THEOREM DecisionsFinal == ASSUME ~Overlap PROVE Spec => DecidedOnce
<1>1. ASSUME TypeOK, LoneInv, [Next]_vars, NEW c \in Cases, NEW a \in Approvals,
             approval[c][a] \in Decision
      PROVE  approval'[c][a] = approval[c][a]
  <2>1. ASSUME NEW s \in Sessions, NEW d \in Decision, Decide(s, d),
               view[s].case = c, view[s].of = a
        PROVE  approval[c][a] = "Pending"
    BY <1>1, <2>1 DEF Decide, LoneInv, Fresh
  <2>2. QED
    BY <1>1, <2>1, ApprovalStep DEF Decision
<1>2. TypeOK /\ LoneInv /\ [Next]_vars =>
        [\A c \in Cases, a \in Approvals :
           approval[c][a] \in Decision => approval'[c][a] = approval[c][a]]_vars
  BY <1>1
<1>3. QED
  BY <1>2, AlwaysLone, PTL DEF Spec, DecidedOnce

(* Without overlapping requests a completed case is never moved, whatever  *)
(* the migrations do.                                                      *)
THEOREM CompletionFinal == ASSUME ~Overlap PROVE Spec => ClosedStaysPut
<1>1. ASSUME TypeOK, LoneInv, [Next]_vars, NEW c \in Cases, closed[c]
      PROVE  closed'[c] /\ stage'[c] = stage[c]
  <2>1. c \in Existing
    BY <1>1 DEF LoneInv
  <2>2. QED
    BY <1>1, <2>1, CaseStep DEF Created, Moved, Decided, Migrated, Untouched
<1>2. TypeOK /\ LoneInv /\ [Next]_vars =>
        [\A c \in Cases : closed[c] => closed'[c] /\ stage'[c] = stage[c]]_vars
  BY <1>1
<1>3. QED
  BY <1>2, AlwaysLone, PTL DEF Spec, ClosedStaysPut

(***************************************************************************)
(* A parent waits however requests overlap.  The transition of a request   *)
(* is judged by the revision it has loaded; what counts is that the stages *)
(* which that revision lets a parent enter without its children can still  *)
(* be entered so in the revision of the row.  Only pages migrate, and one  *)
(* page at a time has a case in hand.                                      *)
(***************************************************************************)
Ungated(v) == {e.to : e \in {f \in Config[v].edges : ~f.family}}

KeepsWays == \A m \in Migrations : Ungated(m[1]) \subseteq Ungated(m[2])

WaysInv ==
    /\ \A s, t \in Pages : view[s] # None /\ view[t] # None => s = t
    /\ \A s \in Pages : view[s] # None => view[s].version = version[view[s].case]
    /\ \A s \in Sessions : view[s] # None =>
          Ungated(view[s].version) \subseteq Ungated(version[view[s].case])

LEMMA InitWays == Init => WaysInv
  BY ConfigAssumption DEF Init, WaysInv

LEMMA WaysKept ==
  ASSUME TypeOK, WaysInv, UNCHANGED version,
         \A s \in Sessions : view'[s] # None => view'[s] = view[s]
  PROVE  WaysInv'
  BY ConfigAssumption DEF WaysInv, Ungated

LEMMA NextWays ==
  ASSUME KeepsWays, TypeOK, WaysInv, [Next]_vars
  PROVE  WaysInv'
<1>0. Pages \subseteq Sessions
  BY ConfigAssumption
<1>1. ASSUME NEW s \in Sessions, NEW c \in Cases, NEW of, NEW known, Loaded(s, c, of, known)
      PROVE WaysInv'
  <2>1. /\ version' = version /\ view'[s].version = version[c] /\ view'[s].case = c
        /\ \A u \in Sessions : u # s => view'[u] = view[u]
        /\ s \in Pages => \A u \in Pages : view[u] = None
    BY <1>1 DEF Loaded, LoopFree, rows, TypeOK
  <2>2. \A u, w \in Pages : view'[u] # None /\ view'[w] # None => u = w
    BY <1>0, <2>1 DEF WaysInv
  <2>3. \A u \in Pages : view'[u] # None => view'[u].version = version[view'[u].case]
    BY <1>0, <2>1 DEF WaysInv
  <2>4. \A u \in Sessions : view'[u] # None =>
            Ungated(view'[u].version) \subseteq Ungated(version[view'[u].case])
    BY <2>1 DEF WaysInv
  <2>5. QED
    BY <2>1, <2>2, <2>3, <2>4 DEF WaysInv, Ungated
<1>2. ASSUME NEW s \in Sessions, NEW w \in Versions, Migrate(s, w) PROVE WaysInv'
  <2> DEFINE c == view[s].case
  <2>1. /\ s \in Pages /\ view[s] # None /\ c \in Cases /\ view[s].version = version[c]
        /\ <<view[s].version, w>> \in Migrations
    BY <1>2 DEF Migrate, WaysInv, TypeOK, View
  <2>2. /\ view'[s] = None /\ \A u \in Sessions : u # s => view'[u] = view[u]
        /\ \A b \in Cases : version'[b] = version[b] \/ (b = c /\ version'[b] = w)
    BY <1>2, <2>1 DEF Migrate, Done, TypeOK
  <2>3. \A u \in Pages : view'[u] = None
    BY <1>0, <2>1, <2>2 DEF WaysInv
  <2>4. Ungated(version[c]) \subseteq Ungated(w)
    BY <2>1 DEF KeepsWays
  <2>5. \A b \in Cases : Ungated(version[b]) \subseteq Ungated(version'[b])
    BY <2>2, <2>4
  <2>6. ASSUME NEW u \in Sessions, view'[u] # None
        PROVE  Ungated(view'[u].version) \subseteq Ungated(version'[view'[u].case])
    <3>1. view'[u] = view[u] /\ view[u] # None /\ view[u].case \in Cases
      BY <2>2, <2>6 DEF TypeOK, View
    <3>2. Ungated(view[u].version) \subseteq Ungated(version[view[u].case])
      BY <3>1 DEF WaysInv
    <3>3. Ungated(version[view[u].case]) \subseteq Ungated(version'[view[u].case])
      BY <2>5, <3>1
    <3>4. QED
      BY <3>1, <3>2, <3>3
  <2>7. QED
    BY <2>3, <2>6 DEF WaysInv, Ungated
<1>3. ASSUME NEW s \in Sessions, Refuse(s) \/ (\E e \in Edge : Transition(s, e))
                                  \/ (\E d \in Decision : Decide(s, d))
      PROVE  WaysInv'
  <2>1. UNCHANGED version /\ Done(s)
    BY <1>3 DEF Refuse, Transition, Decide, rows
  <2>2. \A u \in Sessions : view'[u] # None => view'[u] = view[u]
    BY <2>1 DEF Done, TypeOK
  <2>3. QED
    BY <2>1, <2>2, WaysKept
<1>4. ASSUME \/ \E c \in Cases : CreateCase(c)
             \/ \E S \in SUBSET Cases, t \in Stages : BulkTransition(S, t)
             \/ \E p, k \in Cases : Relate(p, k)
             \/ UNCHANGED vars
      PROVE  WaysInv'
  <2>1. UNCHANGED <<version, view>>
    BY <1>4 DEF CreateCase, BulkTransition, Relate, vars, rows
  <2>2. QED
    BY <2>1, WaysKept
<1>5. QED
  BY <1>1, <1>2, <1>3, <1>4 DEF Next, Handle, LoadCase, LoadApproval

LEMMA AlwaysWays == ASSUME KeepsWays PROVE Spec => [](TypeOK /\ WaysInv)
<1>1. TypeOK /\ WaysInv /\ [Next]_vars => (TypeOK /\ WaysInv)'
  BY NextType, NextWays
<1>2. QED
  BY <1>1, InitType, InitWays, PTL DEF Spec

\* A completed case stays completed, and a stage is changed by two actions only.
LEMMA MoveStep ==
  ASSUME TypeOK, [Next]_vars, NEW p \in Existing
  PROVE  /\ closed[p] => closed'[p]
         /\ stage'[p] # stage[p] =>
              \/ \E s \in Sessions, e \in Edge : Transition(s, e) /\ view[s].case = p
              \/ \E S \in SUBSET Cases, t \in Stages : BulkTransition(S, t) /\ p \in S
<1>0. p \in Cases
  BY DEF Existing
<1>1. ASSUME NEW s \in Sessions, NEW e \in Edge, Transition(s, e)
      PROVE  /\ closed[p] => closed'[p]
             /\ stage'[p] # stage[p] => view[s].case = p
  BY <1>0, <1>1 DEF Transition, TypeOK
<1>2. ASSUME NEW S \in SUBSET Cases, NEW t \in Stages, BulkTransition(S, t)
      PROVE  /\ closed[p] => closed'[p]
             /\ stage'[p] # stage[p] => p \in S
  BY <1>0, <1>2 DEF BulkTransition
<1>3. ASSUME NEW c \in Cases, CreateCase(c)
      PROVE  stage'[p] = stage[p] /\ closed' = closed
  BY <1>0, <1>3 DEF CreateCase, TypeOK
<1>4. QED
  BY <1>0, <1>1, <1>2, <1>3 DEF Next, Handle, LoadCase, LoadApproval, Loaded, Decide, Migrate,
     Refuse, Relate, vars, rows

(* A parent enters a stage behind requires_children_complete only when its *)
(* children are complete: alone, in a bulk request with them, and however  *)
(* requests overlap.  Relations and children are queried under the lock,   *)
(* and a completed case stays completed.                                   *)
THEOREM ParentsDoWait == ASSUME KeepsWays PROVE Spec => ParentsWait
<1> DEFINE Waits(p) == /\ stage'[p] # stage[p]
                       /\ \A e \in Config[version[p]].edges : e.to = stage'[p] => e.family
                       => \A k \in Cases : <<p, k>> \in family => closed'[k]
<1>1. ASSUME TypeOK, WaysInv, [Next]_vars, NEW p \in Existing PROVE Waits(p)
  <2> SUFFICES ASSUME stage'[p] # stage[p],
                      \A e \in Config[version[p]].edges : e.to = stage'[p] => e.family,
                      NEW k \in Cases, <<p, k>> \in family, ~closed[k]
               PROVE  closed'[k]
    <3>1. \A k \in Cases : <<p, k>> \in family => k \in Existing
      BY <1>1 DEF TypeOK
    <3>2. \A k \in Existing : closed[k] => closed'[k]
      BY <1>1, MoveStep
    <3>3. QED
      BY <3>1, <3>2
  <2>1. p \in Cases /\ k \in OpenChildren(p)
    BY <1>1 DEF OpenChildren, TypeOK, Existing
  <2>2. ASSUME NEW s \in Sessions, NEW e \in Edge, Transition(s, e), view[s].case = p
        PROVE  FALSE
    <3>1. /\ view[s] # None /\ e \in Config[view[s].version].edges
          /\ e.family => OpenChildren(p) = {}
      BY <2>2 DEF Transition
    <3>2. stage'[p] = e.to
      BY <1>1, <2>1, <2>2 DEF Transition, TypeOK
    <3>3. ~e.family
      BY <2>1, <3>1
    <3>4. e.to \in Ungated(version[p])
      BY <1>1, <2>2, <3>1, <3>3 DEF WaysInv, Ungated
    <3>5. PICK f \in Config[version[p]].edges : f.to = e.to /\ ~f.family
      BY <3>4 DEF Ungated
    <3>6. QED
      BY <3>2, <3>5
  <2>3. ASSUME NEW S \in SUBSET Cases, NEW t \in Stages, BulkTransition(S, t), p \in S
        PROVE  closed'[k]
    <3>1. stage'[p] = t
      BY <2>1, <2>3 DEF BulkTransition
    <3>2. PICK before \in SUBSET S : CanMove(p, t, before)
      BY <2>3 DEF BulkTransition
    <3>3. k \in before /\ t \in Config[version[k]].terminal
      BY <2>1, <3>1, <3>2 DEF CanMove
    <3>4. QED
      BY <2>3, <3>2, <3>3 DEF BulkTransition
  <2>4. QED
    BY <1>1, <2>2, <2>3, MoveStep
<1>2. TypeOK /\ WaysInv /\ [Next]_vars => [\A p \in Existing : Waits(p)]_vars
  BY <1>1
<1>3. QED
  BY <1>2, AlwaysWays, PTL DEF Spec, ParentsWait

(***************************************************************************)
(* However requests overlap, the approvals of the stage a case is in exist,*)
(* when the revisions a case is migrated between ask for the same.         *)
(***************************************************************************)
SameAsks == \A m \in Migrations : Config[m[1]].asks = Config[m[2]].asks

ViewsAsk ==
    \A s \in Sessions : view[s] # None =>
        /\ view[s].case \in Existing
        /\ Config[view[s].version].asks = Config[version[view[s].case]].asks

RInv == ViewsAsk /\ ApprovalsRequested

LEMMA InitRInv == Init => RInv
  BY DEF Init, RInv, ViewsAsk, ApprovalsRequested, Existing

\* A step that leaves the cases alone, and loads fresh rows if anything.
LEMMA RowsKeepRInv ==
  ASSUME TypeOK, RInv, UNCHANGED rows,
         \A s \in Sessions :
            view'[s] # None =>
              \/ view'[s] = view[s]
              \/ view'[s].case \in Existing /\ view'[s].version = version[view'[s].case]
  PROVE  RInv'
  BY DEF RInv, ViewsAsk, ApprovalsRequested, Existing, rows

LEMMA NextRInv ==
  ASSUME SameAsks, TypeOK, RInv, [Next]_vars
  PROVE  RInv'
<1>0. \A c \in Cases : /\ approval[c] \in [Approvals -> ApprovalStatus]
                       /\ version[c] \in Versions
  BY DEF TypeOK
<1>a. \A v, t : Asked(v, t) \subseteq Config[v].asks /\ (v \in Versions => Asked(v, t) \subseteq Approvals)
  BY ConfigAssumption DEF Asked
<1>b. \A c \in Cases, a \in Approvals : approval[c][a] # "Absent" => approval'[c][a] # "Absent"
  BY ApprovalStep DEF Decision
<1>1. ASSUME NEW c \in Cases, CreateCase(c) PROVE RInv'
  <2> DEFINE start == Config[version[c]].initial
  <2>1. /\ stage' = [stage EXCEPT ![c] = start] /\ version' = version /\ view' = view
        /\ approval'[c] = Requested(approval[c], version[c], start)
        /\ \A b \in Cases \ {c} : approval'[b] = approval[b]
        /\ start # None /\ start \in Stages
    BY <1>0, <1>1, ConfigFacts, ConfigAssumption DEF CreateCase, TypeOK
  <2>2. Existing' = Existing \cup {c}
    BY <2>1 DEF Existing, TypeOK
  <2>3. ViewsAsk'
    BY <2>1, <2>2 DEF RInv, ViewsAsk
  <2>4. \A a \in Asked(version[c], start) : approval'[c][a] # "Absent"
    BY <1>0, <2>1, RequestedFacts
  <2>5. ASSUME NEW b \in Existing', NEW a \in Asked(version'[b], stage'[b])
        PROVE  approval'[b][a] # "Absent"
    <3>1. CASE b = c
      BY <2>1, <2>4, <2>5, <3>1 DEF TypeOK
    <3>2. CASE b # c
      BY <2>1, <2>2, <2>5, <3>2 DEF RInv, ApprovalsRequested, TypeOK, Existing
    <3>3. QED
      BY <3>1, <3>2
  <2>6. ApprovalsRequested'
    BY <2>5 DEF ApprovalsRequested
  <2>7. QED
    BY <2>3, <2>6 DEF RInv
<1>2. ASSUME NEW s \in Sessions, NEW c \in Cases, NEW of, NEW known, Loaded(s, c, of, known)
      PROVE RInv'
  BY <1>2, RowsKeepRInv DEF Loaded, TypeOK
<1>3. ASSUME NEW s \in Sessions, NEW e \in Edge, Transition(s, e) PROVE RInv'
  <2> DEFINE c == view[s].case
             v == view[s].version
  <2>1. /\ view[s] # None /\ c \in Cases /\ c \in Existing /\ v \in Versions
        /\ Config[v].asks = Config[version[c]].asks /\ e.to \in Stages /\ e \in Config[v].edges
    BY <1>3 DEF Transition, RInv, ViewsAsk, TypeOK, View, Edge
  <2>2. /\ version' = version
        /\ stage'[c] \in {e.to, stage[c]} /\ stage'[c] # None
        /\ \A b \in Cases \ {c} : stage'[b] = stage[b]
    BY <1>3, <2>1, ConfigAssumption DEF Transition, TypeOK, Existing
  <2>3. approval'[c] = Requested(approval[c], v, e.to)
    BY <1>3, <2>1 DEF Transition, TypeOK
  <2>4. Existing' = Existing
    BY <2>1, <2>2 DEF Existing
  <2>5. ViewsAsk'
    BY <1>3, <2>2, <2>4 DEF Transition, Done, RInv, ViewsAsk, TypeOK
  <2>6. \A a \in Asked(version[c], e.to) : approval'[c][a] # "Absent"
    <3>1. Asked(version[c], e.to) = Asked(v, e.to)
      BY <2>1 DEF Asked
    <3>2. QED
      BY <1>0, <2>1, <2>3, <3>1, RequestedFacts
  <2>7. ASSUME NEW b \in Existing, NEW a \in Asked(version[b], stage'[b])
        PROVE  approval'[b][a] # "Absent"
    <3>1. b \in Cases /\ a \in Approvals
      BY <1>0, <1>a DEF Existing
    <3>2. stage'[b] = stage[b] \/ (b = c /\ stage'[b] = e.to)
      BY <2>2, <3>1
    <3>3. CASE stage'[b] = stage[b]
      BY <1>b, <2>7, <3>1, <3>3 DEF RInv, ApprovalsRequested
    <3>4. QED
      BY <2>6, <3>2, <3>3
  <2>8. ApprovalsRequested'
    BY <2>2, <2>4, <2>7 DEF ApprovalsRequested
  <2>9. QED
    BY <2>5, <2>8 DEF RInv
<1>4. ASSUME NEW s \in Sessions, NEW d \in Decision, Decide(s, d) PROVE RInv'
  <2>1. ViewsAsk'
    BY <1>4 DEF Decide, Done, RInv, ViewsAsk, TypeOK, Existing
  <2>2. \A b \in Existing : \A a \in Asked(version[b], stage[b]) : approval'[b][a] # "Absent"
    BY <1>0, <1>a, <1>b DEF RInv, ApprovalsRequested, Existing
  <2>3. QED
    BY <1>4, <2>1, <2>2 DEF Decide, RInv, ApprovalsRequested, Existing
<1>5. ASSUME NEW s \in Sessions, NEW w \in Versions, Migrate(s, w) PROVE RInv'
  <2> DEFINE c == view[s].case
  <2>1. /\ view[s] # None /\ c \in Cases
        /\ Config[view[s].version].asks = Config[version[c]].asks
        /\ Config[view[s].version].asks = Config[w].asks
    BY <1>5 DEF Migrate, SameAsks, RInv, ViewsAsk, Existing
  <2>2. /\ UNCHANGED <<stage, approval>>
        /\ \A b \in Cases : Config[version'[b]].asks = Config[version[b]].asks
    BY <1>5, <2>1 DEF Migrate, TypeOK
  <2>3. Existing' = Existing
    BY <2>2 DEF Existing
  <2>4. ViewsAsk'
    BY <1>5, <2>2, <2>3 DEF Migrate, Done, RInv, ViewsAsk, TypeOK, Existing
  <2>5. ApprovalsRequested'
    BY <2>2, <2>3 DEF RInv, ApprovalsRequested, Asked, Existing
  <2>6. QED
    BY <2>4, <2>5 DEF RInv
<1>6. ASSUME NEW s \in Sessions, Refuse(s) PROVE RInv'
  BY <1>6, RowsKeepRInv DEF Refuse, Done, TypeOK
<1>7. ASSUME NEW S \in SUBSET Cases, NEW t \in Stages, BulkTransition(S, t) PROVE RInv'
  <2>1. /\ version' = version /\ view' = view /\ S \subseteq Existing /\ t # None
        /\ \A b \in Cases : stage'[b] = IF b \in S THEN t ELSE stage[b]
        /\ \A b \in S : approval'[b] = Requested(approval[b], version[b], t)
    BY <1>7, ConfigAssumption DEF BulkTransition
  <2>2. Existing' = Existing
    BY <2>1 DEF Existing
  <2>3. ViewsAsk'
    BY <2>1, <2>2 DEF RInv, ViewsAsk
  <2>4. ASSUME NEW b \in Existing, NEW a \in Asked(version[b], stage'[b])
        PROVE  approval'[b][a] # "Absent"
    <3>1. b \in Cases /\ a \in Approvals
      BY <1>0, <1>a DEF Existing
    <3>2. CASE b \in S
      BY <1>0, <2>1, <2>4, <3>1, <3>2, RequestedFacts
    <3>3. CASE b \notin S
      BY <1>b, <2>1, <2>4, <3>1, <3>3 DEF RInv, ApprovalsRequested
    <3>4. QED
      BY <3>2, <3>3
  <2>5. ApprovalsRequested'
    BY <2>1, <2>2, <2>4 DEF ApprovalsRequested
  <2>6. QED
    BY <2>3, <2>5 DEF RInv
<1>8. ASSUME NEW p \in Cases, NEW k \in Cases, Relate(p, k) PROVE RInv'
  BY <1>8 DEF Relate, RInv, ViewsAsk, ApprovalsRequested, Existing
<1>9. CASE UNCHANGED vars
  BY <1>9, RowsKeepRInv DEF vars
<1>10. QED
  BY <1>1, <1>2, <1>3, <1>4, <1>5, <1>6, <1>7, <1>8, <1>9
  DEF Next, Handle, LoadCase, LoadApproval

(* create_stage_approvals reads the stage its own transition wrote, so no  *)
(* interleaving leaves a case in a stage whose approvals nobody requested. *)
THEOREM RequestedDespiteOverlap == ASSUME SameAsks PROVE Spec => []ApprovalsRequested
<1>1. TypeOK /\ RInv /\ [Next]_vars => (TypeOK /\ RInv)'
  BY NextType, NextRInv
<1>2. RInv => ApprovalsRequested
  BY DEF RInv
<1>3. QED
  BY <1>1, <1>2, InitType, InitRInv, PTL DEF Spec

=============================================================================
