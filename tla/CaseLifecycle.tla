----------------------------- MODULE CaseLifecycle -----------------------------
(***************************************************************************)
(* The life of a case (src/app/services/workflow_engine.py): creation,     *)
(* stage transitions behind approval and child gates, approval decisions,  *)
(* bulk transitions, parent/child links and snapshot migration, as the     *)
(* request handlers of src/app/web.py, api.py and work_management.py call  *)
(* them.                                                                   *)
(*                                                                         *)
(* A handler loads its case or approval first, takes database_write_lock() *)
(* afterwards, and the engine then works on the loaded object: autoflush   *)
(* and expiry are off, so the object is not read again, and only the       *)
(* columns that differ from what was loaded are written back.  view[s] is  *)
(* that object; queries made under the lock see the database.  The lock    *)
(* makes everything from there to the commit one step.                     *)
(*                                                                         *)
(* Deadlines, assignment and the jobs a transition enqueues are no state   *)
(* of this module; who may do what is left open, a request may be refused. *)
(***************************************************************************)
EXTENDS Integers, FiniteSets

CONSTANTS
    Cases,
    Stages,
    Approvals,      \* pairs of stage_key and approval_key, by name
    AskedAt,        \* AskedAt[a]: the stage_key of a
    Versions,       \* workflow revisions a case may have captured
    Config,         \* Config[v]: the captured configuration
    Migrations,     \* pairs of versions a case may be migrated between
    Sessions,       \* requests that can be in progress at a time
    Pages,          \* those of web.py, which load the approvals with the case
    Overlap,        \* may another request commit between load and lock?
    None

Edge == [from : Stages, to : Stages, gated : BOOLEAN, family : BOOLEAN]

(* What validate_workflow_config and the unique constraints guarantee.     *)
ASSUME ConfigAssumption ==
    /\ None \notin Cases /\ None \notin Stages /\ None \notin Approvals
    /\ AskedAt \in [Approvals -> Stages]
    /\ Migrations \subseteq Versions \X Versions
    /\ Pages \subseteq Sessions
    /\ Overlap \in BOOLEAN
    /\ Config \in [Versions -> [stages : SUBSET Stages, initial : Stages,
                                terminal : SUBSET Stages, edges : SUBSET Edge,
                                asks : SUBSET Approvals]]
    /\ \A v \in Versions :
         /\ Config[v].initial \in Config[v].stages \ Config[v].terminal
         /\ Config[v].terminal \subseteq Config[v].stages
         /\ \A e \in Config[v].edges : {e.from, e.to} \subseteq Config[v].stages
         /\ \A e \in Config[v].edges : e.from \notin Config[v].terminal
         /\ \A e, f \in Config[v].edges :
              e.from = f.from /\ e.to = f.to => e = f

VARIABLES
    stage,      \* the status column, None before the case exists
    closed,     \* completed_at is set
    version,    \* the captured configuration
    approval,   \* approval[c][a]: the status of the approval row, or "Absent"
    family,     \* parent_child relations, pairs of parent and child
    view        \* what each request has loaded, None when there is none

rows == <<stage, closed, version, approval, family>>
vars == <<rows, view>>

Decision       == {"Approved", "Rejected"}
ApprovalStatus == Decision \cup {"Absent", "Pending"}
Existing       == {c \in Cases : stage[c] # None}
View           == [case : Cases, of : Approvals \cup {None}, stage : Stages,
                   closed : BOOLEAN, version : Versions,
                   known : [Approvals -> ApprovalStatus]]

-----------------------------------------------------------------------------
Init ==
    /\ stage    = [c \in Cases |-> None]
    /\ closed   = [c \in Cases |-> FALSE]
    /\ version  \in [Cases -> Versions]
    /\ approval = [c \in Cases |-> [a \in Approvals |-> "Absent"]]
    /\ family   = {}
    /\ view     = [s \in Sessions |-> None]

Quiet == Overlap \/ \A s \in Sessions : view[s] = None

\* Pages share one event loop and do not wait between load and lock.
LoopFree == \A s \in Pages : view[s] = None

\* The approvals that configuration v asks for in stage t.
Asked(v, t) == {a \in Config[v].asks : AskedAt[a] = t}

\* Variant: only the first time, for the initial stage.
RequestedInitially(row, v, t) ==
    [a \in Approvals |->
        IF a \in Asked(v, t) /\ t = Config[v].initial /\ row[a] = "Absent"
        THEN "Pending" ELSE row[a]]

\* create_stage_approvals: the rows that do not exist yet.
Requested(row, v, t) ==
    [a \in Approvals |->
        IF a \in Asked(v, t) /\ row[a] = "Absent" THEN "Pending" ELSE row[a]]

(***************************************************************************)
(* create_case, under the lock from the start.                             *)
(***************************************************************************)
CreateCase(c) ==
    /\ Quiet
    /\ c \notin Existing
    /\ LET start == Config[version[c]].initial IN
        /\ stage' = [stage EXCEPT ![c] = start]
        /\ approval' = [approval EXCEPT ![c] = Requested(@, version[c], start)]
    /\ UNCHANGED <<closed, version, family, view>>

(***************************************************************************)
(* The part of a handler before the lock.                                  *)
(***************************************************************************)
Loaded(s, c, a, known) ==
    /\ Quiet
    /\ view[s] = None
    /\ s \in Pages => LoopFree
    /\ c \in Existing
    /\ view' = [view EXCEPT ![s] =
                  [case |-> c, of |-> a, stage |-> stage[c],
                   closed |-> closed[c], version |-> version[c], known |-> known]]
    /\ UNCHANGED rows

Nothing == [a \in Approvals |-> "Absent"]

LoadCase(s, c) ==
    Loaded(s, c, None, IF s \in Pages THEN approval[c] ELSE Nothing)

LoadApproval(s, c, a) ==
    /\ approval[c][a] # "Absent"
    /\ Loaded(s, c, a, [Nothing EXCEPT ![a] = approval[c][a]])

\* An approval row already loaded by the session is not read again.
Seen(s) ==
    [a \in Approvals |-> IF view[s].known[a] # "Absent" THEN view[s].known[a]
                         ELSE approval[view[s].case][a]]

Done(s) == view' = [view EXCEPT ![s] = None]

(***************************************************************************)
(* transition_case.                                                        *)
(***************************************************************************)
Approved(e, row) ==
    e.gated => \A a \in Approvals :
                 AskedAt[a] = e.from => row[a] \in {"Absent", "Approved"}

OpenChildren(c) == {k \in Existing : <<c, k>> \in family /\ ~closed[k]}

\* Variant: the gate is skipped.
TransitionUngated(s, e) ==
    /\ view[s] # None /\ view[s].of = None
    /\ LET v == view[s]  c == v.case IN
        /\ ~v.closed
        /\ e \in Config[v.version].edges /\ e.from = v.stage
        /\ e.family => OpenChildren(c) = {}
        /\ stage' = IF e.to = v.stage THEN stage ELSE [stage EXCEPT ![c] = e.to]
        /\ closed' = [closed EXCEPT ![c] = @ \/ e.to \in Config[v.version].terminal]
        /\ approval' = [approval EXCEPT ![c] = Requested(@, v.version, e.to)]
    /\ Done(s)
    /\ UNCHANGED <<version, family>>

\* Variant: completed_at is set on the way out of the gate only.
TransitionClosingGated(s, e) ==
    /\ view[s] # None /\ view[s].of = None
    /\ LET v == view[s]  c == v.case IN
        /\ ~v.closed
        /\ e \in Config[v.version].edges /\ e.from = v.stage
        /\ Approved(e, Seen(s))
        /\ e.family => OpenChildren(c) = {}
        /\ stage' = IF e.to = v.stage THEN stage ELSE [stage EXCEPT ![c] = e.to]
        /\ closed' = [closed EXCEPT ![c] = @ \/ e.gated]
        /\ approval' = [approval EXCEPT ![c] = Requested(@, v.version, e.to)]
    /\ Done(s)
    /\ UNCHANGED <<version, family>>

Transition(s, e) ==
    /\ view[s] # None /\ view[s].of = None
    /\ LET v == view[s]  c == v.case IN
        /\ ~v.closed
        /\ e \in Config[v.version].edges /\ e.from = v.stage
        /\ Approved(e, Seen(s))
        /\ e.family => OpenChildren(c) = {}
        /\ stage' = IF e.to = v.stage THEN stage ELSE [stage EXCEPT ![c] = e.to]
        /\ closed' = [closed EXCEPT ![c] = @ \/ e.to \in Config[v.version].terminal]
        /\ approval' = [approval EXCEPT ![c] = Requested(@, v.version, e.to)]
    /\ Done(s)
    /\ UNCHANGED <<version, family>>

(* cases_bulk loads the cases under the lock, in no stated order, and      *)
(* transitions all of them or none.                                        *)
CanMove(c, t, before) ==
    \E e \in Config[version[c]].edges :
        /\ e.from = stage[c] /\ e.to = t
        /\ Approved(e, approval[c])
        /\ e.family => \A k \in OpenChildren(c) :
                          k \in before /\ t \in Config[version[k]].terminal

\* Variant: children in the selection count as done, whatever the order.
BulkTransitionUnordered(S, t) ==
    /\ Quiet /\ LoopFree
    /\ S # {} /\ S \subseteq Existing
    /\ \A c \in S : ~closed[c] /\ CanMove(c, t, Cases)
    /\ stage'  = [c \in Cases |-> IF c \in S THEN t ELSE stage[c]]
    /\ closed' = [c \in Cases |->
                    closed[c] \/ (c \in S /\ t \in Config[version[c]].terminal)]
    /\ approval' = [c \in Cases |-> IF c \in S
                      THEN Requested(approval[c], version[c], t) ELSE approval[c]]
    /\ UNCHANGED <<version, family, view>>

BulkTransition(S, t) ==
    /\ Quiet /\ LoopFree
    /\ S # {} /\ S \subseteq Existing
    /\ \E turn \in [S -> 1..Cardinality(S)] :
         \A c \in S : ~closed[c] /\ CanMove(c, t, {k \in S : turn[k] < turn[c]})
    /\ stage'  = [c \in Cases |-> IF c \in S THEN t ELSE stage[c]]
    /\ closed' = [c \in Cases |->
                    closed[c] \/ (c \in S /\ t \in Config[version[c]].terminal)]
    /\ approval' = [c \in Cases |-> IF c \in S
                      THEN Requested(approval[c], version[c], t) ELSE approval[c]]
    /\ UNCHANGED <<version, family, view>>

(***************************************************************************)
(* decide_approval looks at the approval only, not at the stage or the     *)
(* completion of its case.                                                 *)
(***************************************************************************)
\* Variant: the status of the approval is not looked at.
DecideAgain(s, d) ==
    /\ view[s] # None /\ view[s].of # None
    /\ LET a == view[s].of IN
        approval' = [approval EXCEPT ![view[s].case][a] = d]
    /\ Done(s)
    /\ UNCHANGED <<stage, closed, version, family>>

Decide(s, d) ==
    /\ view[s] # None /\ view[s].of # None
    /\ LET a == view[s].of IN
        /\ view[s].known[a] = "Pending"
        /\ approval' = [approval EXCEPT ![view[s].case][a] = d]
    /\ Done(s)
    /\ UNCHANGED <<stage, closed, version, family>>

(***************************************************************************)
(* migrate_case_snapshot asks only that the stage of the loaded case is    *)
(* known to the target; no approval is created.                            *)
(***************************************************************************)
\* Variant: the migrated case starts over.
MigrateRestarting(s, w) ==
    /\ view[s] # None /\ view[s].of = None
    /\ s \in Pages
    /\ <<view[s].version, w>> \in Migrations
    /\ version' = [version EXCEPT ![view[s].case] = w]
    /\ stage' = [stage EXCEPT ![view[s].case] = Config[w].initial]
    /\ Done(s)
    /\ UNCHANGED <<closed, approval, family>>

Migrate(s, w) ==
    /\ view[s] # None /\ view[s].of = None
    /\ s \in Pages
    /\ <<view[s].version, w>> \in Migrations
    /\ view[s].stage \in Config[w].stages
    /\ version' = IF w = view[s].version THEN version
                  ELSE [version EXCEPT ![view[s].case] = w]
    /\ Done(s)
    /\ UNCHANGED <<stage, closed, approval, family>>

\* TransitionBlocked, PermissionDenied or an invalid input: rolled back.
Refuse(s) ==
    /\ view[s] # None
    /\ Done(s)
    /\ UNCHANGED rows

\* create_relation with the type parent_child.
Relate(p, k) ==
    /\ Quiet /\ LoopFree
    /\ p # k
    /\ {p, k} \subseteq Existing
    /\ family' = family \cup {<<p, k>>}
    /\ UNCHANGED <<stage, closed, version, approval, view>>

Handle(s) ==
    \/ \E c \in Cases : LoadCase(s, c)
    \/ \E c \in Cases, a \in Approvals : LoadApproval(s, c, a)
    \/ \E e \in Edge : Transition(s, e)
    \/ \E d \in Decision : Decide(s, d)
    \/ \E w \in Versions : Migrate(s, w)
    \/ Refuse(s)

Next ==
    \/ \E c \in Cases : CreateCase(c)
    \/ \E s \in Sessions : Handle(s)
    \/ \E S \in SUBSET Cases, t \in Stages : BulkTransition(S, t)
    \/ \E p, k \in Cases : Relate(p, k)

Spec == Init /\ [][Next]_vars

-----------------------------------------------------------------------------
TypeOK ==
    /\ stage \in [Cases -> Stages \cup {None}]
    /\ closed \in [Cases -> BOOLEAN]
    /\ version \in [Cases -> Versions]
    /\ approval \in [Cases -> [Approvals -> ApprovalStatus]]
    /\ family \in SUBSET {pair \in Existing \X Existing : pair[1] # pair[2]}
    /\ view \in [Sessions -> View \cup {None}]

(* completed_at and the stage agree: dashboards, the SLA scan and the      *)
(* child gate read the one, transitions and pages the other.               *)
ClosedIffTerminal ==
    \A c \in Existing : closed[c] <=> stage[c] \in Config[version[c]].terminal

(* Whatever the order of requests, the approvals of the stage a case is in *)
(* have been asked for: an approval that has no row blocks nothing, so     *)
(* transition_case depends on create_stage_approvals having run.           *)
ApprovalsRequested ==
    \A c \in Existing : \A a \in Asked(version[c], stage[c]) :
        approval[c][a] # "Absent"

(* A stage that can be entered only through requires_approvals holds no    *)
(* case without all approvals of a stage before it, however the case was   *)
(* returned, migrated or moved in bulk ("All required approvals must be    *)
(* approved before this transition.", workflow_engine.py:650).             *)
Guarded(v, t) ==
    /\ t # Config[v].initial
    /\ \A e \in Config[v].edges : e.to = t => e.gated

BehindTheGate ==
    \A c \in Existing :
        Guarded(version[c], stage[c]) =>
            \E e \in Config[version[c]].edges :
                /\ e.to = stage[c]
                /\ \A a \in Asked(version[c], e.from) : approval[c][a] = "Approved"

(* Every open case has a way to a terminal stage, which is what            *)
(* validate_workflow_config refuses a workflow for ("Stage(s) cannot reach *)
(* a terminal outcome", :257) and what transition_case promises after a    *)
(* rejection ("Use a configured rejection or rework transition.", :648).   *)
Usable(c, e) ==
    e.gated => \A a \in Approvals : AskedAt[a] = e.from => approval[c][a] # "Rejected"

CanFinish(c) ==
    \A S \in SUBSET Stages :
        /\ stage[c] \in S
        /\ \A e \in Config[version[c]].edges : e.from \in S /\ Usable(c, e) => e.to \in S
        => S \cap Config[version[c]].terminal # {}

NeverStranded == \A c \in Existing : CanFinish(c)

(* "This case is already in a terminal state." (workflow_engine.py:634): a *)
(* completed case keeps its stage.                                         *)
ClosedStaysPut ==
    [][\A c \in Cases : closed[c] => closed'[c] /\ stage'[c] = stage[c]]_vars

(* "This approval already has a decision." (workflow_engine.py:708): a     *)
(* decision is taken once, later transitions do not reopen it.             *)
DecidedOnce ==
    [][\A c \in Cases, a \in Approvals :
          approval[c][a] \in Decision => approval'[c][a] = approval[c][a]]_vars

(* Even when requests overlap, a decided approval never goes back to       *)
(* Pending, nor disappears: re-entering the stage does not ask again.      *)
DecidedForGood ==
    [][\A c \in Cases, a \in Approvals :
          approval[c][a] \in Decision => approval'[c][a] \in Decision]_vars

(* A parent enters a stage behind requires_children_complete only when its *)
(* children are complete, also when they move in the same bulk request,    *)
(* and when requests overlap.                                              *)
ParentsWait ==
    [][\A p \in Existing :
          /\ stage'[p] # stage[p]
          /\ \A e \in Config[version[p]].edges : e.to = stage'[p] => e.family
          => \A k \in Cases : <<p, k>> \in family => closed'[k]]_vars
=============================================================================
